---- MODULE Spec2Model ----
(***************************************************************************)
(* MythosCards exporter: the image matcher (images.py) and the checklist   *)
(* header classifier / row expander (headers.py, expand.py).               *)
(*                                                                         *)
(* Text is modelled as a sequence of characters (one string each), so that  *)
(* the regular expressions, the normaliser and difflib's ratio are          *)
(* computed character by character as the code computes them.              *)
(***************************************************************************)
EXTENDS Integers, Sequences, FiniteSets, TLC

(***************************************************************************)
(* Bounds of the model                                                     *)
(***************************************************************************)
\* largest number of image files in the scanned directory
MaxFiles == 3
\* largest number of card rows read from the output sheet
MaxCards == 1

----------------------------------------------------------------------------
(***************************************************************************)
(* Characters and generic sequence helpers                                 *)
(***************************************************************************)
Digits == <<"0", "1", "2", "3", "4", "5", "6", "7", "8", "9">>
LowerCase == <<"a", "b", "c", "d", "e", "f", "g", "h", "i", "j", "k", "l", "m",
               "n", "o", "p", "q", "r", "s", "t", "u", "v", "w", "x", "y", "z">>
UpperCase == <<"A", "B", "C", "D", "E", "F", "G", "H", "I", "J", "K", "L", "M",
               "N", "O", "P", "Q", "R", "S", "T", "U", "V", "W", "X", "Y", "Z">>

Range(s) == {s[i] : i \in DOMAIN s}
\* one character standing for a run of 4301 nines: a number int() refuses
\* (more than 4300 digits)
NinesRun == "nines4301"
IsDigit(c) == c \in Range(Digits) \/ c = NinesRun
IsLower(c) == c \in Range(LowerCase)
IndexOf(s, c) == CHOOSE i \in DOMAIN s : s[i] = c
DigitValue(c) == IndexOf(Digits, c) - 1

Min2(a, b) == IF a <= b THEN a ELSE b
Max2(a, b) == IF a >= b THEN a ELSE b

\* s[from..] (1-based), the empty sequence when from > Len(s)
Drop(s, from) == SubSeq(s, from, Len(s))
\* the first n elements of s
Take(s, n) == SubSeq(s, 1, n)
StartsWith(s, p) == Len(p) <= Len(s) /\ Take(s, Len(p)) = p
EndsWith(s, p) == Len(p) <= Len(s) /\ Drop(s, Len(s) - Len(p) + 1) = p
\* Python's `sub in s`
Contains(s, sub) ==
    \E i \in 1..(Len(s) - Len(sub) + 1) : SubSeq(s, i, i + Len(sub) - 1) = sub

RECURSIVE Concat(_)
Concat(ss) == IF ss = <<>> THEN <<>> ELSE Head(ss) \o Concat(Tail(ss))

\* sep.join(parts)
RECURSIVE Join(_, _)
Join(parts, sep) ==
    IF parts = <<>> THEN <<>>
    ELSE IF Len(parts) = 1 THEN parts[1]
    ELSE parts[1] \o sep \o Join(Tail(parts), sep)

\* Python's s.split(sep) for a one-character sep: always at least one part
RECURSIVE Split(_, _)
Split(s, sep) ==
    IF \A i \in DOMAIN s : s[i] # sep THEN <<s>>
    ELSE LET k == CHOOSE i \in DOMAIN s :
                      s[i] = sep /\ \A j \in 1..(i - 1) : s[j] # sep
         IN  <<Take(s, k - 1)>> \o Split(Drop(s, k + 1), sep)

\* [p for p in parts if len(p) >= 2]
RECURSIVE FilterLen2(_)
FilterLen2(parts) ==
    IF parts = <<>> THEN <<>>
    ELSE (IF Len(Head(parts)) >= 2 THEN <<Head(parts)>> ELSE <<>>)
         \o FilterLen2(Tail(parts))

\* length of the longest suffix of s made of digits
RECURSIVE TrailingDigits(_)
TrailingDigits(s) ==
    IF s = <<>> \/ ~IsDigit(s[Len(s)]) THEN 0
    ELSE 1 + TrailingDigits(Take(s, Len(s) - 1))

\* int("0125")
RECURSIVE ToInt(_)
ToInt(ds) ==
    IF ds = <<>> THEN 0
    ELSE 10 * ToInt(Take(ds, Len(ds) - 1)) + DigitValue(ds[Len(ds)])

----------------------------------------------------------------------------
(***************************************************************************)
(* images.py: normalize_for_matching                                       *)
(***************************************************************************)
\* str.translate(TURKISH_TO_ASCII)
\* (characters outside ASCII are written by their entity names: "uuml" is
\* u with diaeresis, "inodot" the dotless i, "Idot" the dotted capital I)
TurkishFrom == <<"ccedil", "Ccedil", "gbreve", "Gbreve", "inodot", "I", "Idot",
                 "scedil", "Scedil", "ouml", "Ouml", "uuml", "Uuml", "acirc", "Acirc">>
TurkishTo   == <<"c", "C", "g", "G", "i", "I", "I",
                 "s", "S", "o", "O", "u", "U", "a", "A">>
TURKISH_TO_ASCII(c) ==
    IF c \in Range(TurkishFrom) THEN TurkishTo[IndexOf(TurkishFrom, c)] ELSE c

\* str.lower(): ASCII and Turkish capitals; the dotted capital I lowers to
\* two code points, "i" followed by the combining dot above
TurkishUpper == <<"Ccedil", "Gbreve", "Scedil", "Ouml", "Uuml", "Acirc">>
TurkishLower == <<"ccedil", "gbreve", "scedil", "ouml", "uuml", "acirc">>
LowerChar(c) ==
    IF c \in Range(UpperCase) THEN <<LowerCase[IndexOf(UpperCase, c)]>>
    ELSE IF c \in Range(TurkishUpper) THEN <<TurkishLower[IndexOf(TurkishUpper, c)]>>
    ELSE IF c = "Idot" THEN <<"i", "dotabove">>
    ELSE <<c>>
RECURSIVE Lower(_)
Lower(s) == IF s = <<>> THEN <<>> ELSE LowerChar(Head(s)) \o Lower(Tail(s))

\* re.sub(r'_+', '_', s)
RECURSIVE CollapseUnderscores(_)
CollapseUnderscores(s) ==
    IF Len(s) < 2 THEN s
    ELSE IF s[1] = "_" /\ s[2] = "_" THEN CollapseUnderscores(Tail(s))
    ELSE <<s[1]>> \o CollapseUnderscores(Tail(s))

\* s.strip('_')
RECURSIVE StripUnderscores(_)
StripUnderscores(s) ==
    IF s = <<>> THEN s
    ELSE IF s[1] = "_" THEN StripUnderscores(Tail(s))
    ELSE IF s[Len(s)] = "_" THEN StripUnderscores(Take(s, Len(s) - 1))
    ELSE s

\* a normalizer that strips the underscores before it replaces the characters
normalize_for_matching_StripFirst(text) ==
    IF text = <<>> THEN <<>>
    ELSE LET translated == [i \in DOMAIN text |-> TURKISH_TO_ASCII(text[i])]
             lowered    == StripUnderscores(Lower(translated))
             replaced   == [i \in DOMAIN lowered |->
                              IF IsLower(lowered[i]) \/ IsDigit(lowered[i])
                              THEN lowered[i] ELSE "_"]
         IN  CollapseUnderscores(replaced)

normalize_for_matching(text) ==
    IF text = <<>> THEN <<>>
    ELSE LET translated == [i \in DOMAIN text |-> TURKISH_TO_ASCII(text[i])]
             lowered    == Lower(translated)
             replaced   == [i \in DOMAIN lowered |->
                              IF IsLower(lowered[i]) \/ IsDigit(lowered[i])
                              THEN lowered[i] ELSE "_"]
         IN  StripUnderscores(CollapseUnderscores(replaced))

----------------------------------------------------------------------------
(***************************************************************************)
(* images.py: CardInfo                                                     *)
(***************************************************************************)
\* CardInfo.get_all_parts: the normalised player, series and group, each
\* split on "_" when not empty, keeping the parts of length >= 2
get_all_parts(card) ==
    LET partsOf(norm) == IF norm = <<>> THEN <<>> ELSE Split(norm, "_")
    IN  FilterLen2(partsOf(card.player_norm) \o partsOf(card.series_norm)
                   \o partsOf(card.group_norm))

\* CardInfo(...) followed by __post_init__
CardInfo(row_number, raw_text, player, series, group, denominator, is_signed, is_base) ==
    [row_number  |-> row_number,
     raw_text    |-> raw_text,
     player      |-> player,
     series      |-> series,
     group       |-> group,
     denominator |-> denominator,
     is_signed   |-> is_signed,
     is_base     |-> is_base,
     player_norm |-> normalize_for_matching(player),
     series_norm |-> normalize_for_matching(series),
     group_norm  |-> normalize_for_matching(group)]

----------------------------------------------------------------------------
(***************************************************************************)
(* images.py: ImageMatcher._parse_filename                                 *)
(***************************************************************************)
\* re.sub(r'\.(jpg|jpeg|png)$', '', name)
StripExtension(name) ==
    IF EndsWith(name, <<".", "j", "p", "e", "g">>) THEN Take(name, Len(name) - 5)
    ELSE IF EndsWith(name, <<".", "j", "p", "g">>) \/ EndsWith(name, <<".", "p", "n", "g">>)
         THEN Take(name, Len(name) - 4)
    ELSE name

\* re.match(r'^(\d{8})_(.+)$', name)
HasDatePrefix(name) ==
    /\ Len(name) >= 10
    /\ \A i \in 1..8 : IsDigit(name[i])
    /\ name[9] = "_"

\* re.sub(r'_s_', '_', name): non-overlapping matches, left to right
RECURSIVE SubSignedMarker(_)
SubSignedMarker(name) ==
    IF Len(name) < 3 THEN name
    ELSE IF Take(name, 3) = <<"_", "s", "_">>
         THEN <<"_">> \o SubSignedMarker(Drop(name, 4))
    ELSE <<name[1]>> \o SubSignedMarker(Tail(name))

BaseWord == <<"_", "b", "a", "s", "e">>

\* a parser whose numeric suffix check comes before the Base check
parse_filename_NumberFirst(filename) ==
    LET lowered   == Lower(filename)
        noext     == StripExtension(lowered)
        has_date  == HasDatePrefix(noext)
        name1     == IF has_date THEN Drop(noext, 10) ELSE noext
        is_signed == Contains(<<"_">> \o name1 \o <<"_">>, <<"_", "s", "_">>)
        \* re.search(r'_base(?:_(\d+))?$', name)
        k         == TrailingDigits(name1)
        baseBare  == EndsWith(name1, BaseWord)
        baseNum   == FALSE
        is_base   == baseBare \/ baseNum
        \* re.search(r'_(\d+)$', name)
        denomNum  == /\ ~is_base
                     /\ k >= 1
                     /\ Len(name1) > k
                     /\ name1[Len(name1) - k] = "_"
        denominator == IF baseNum \/ denomNum
                       THEN ToInt(Drop(name1, Len(name1) - k + 1))
                       ELSE 0
        name2     == IF baseBare THEN Take(name1, Len(name1) - 5)
                     ELSE IF baseNum THEN Take(name1, Len(name1) - k - 6)
                     ELSE IF denomNum THEN Take(name1, Len(name1) - k - 1)
                     ELSE name1
        name3     == SubSignedMarker(name2)
        name4     == IF StartsWith(name3, <<"s", "_">>) THEN Drop(name3, 3) ELSE name3
        name5     == IF EndsWith(name4, <<"_", "s">>)
                     THEN Take(name4, Len(name4) - 2) ELSE name4
        all_parts == Split(name5, "_")
    IN  [original_name |-> filename,
         has_date      |-> has_date,
         date_prefix   |-> IF has_date THEN Take(noext, 8) ELSE <<>>,
         denominator   |-> denominator,
         is_signed     |-> is_signed,
         is_base       |-> is_base,
         all_parts     |-> all_parts,
         content_parts |-> FilterLen2(all_parts)]

parse_filename(filename) ==
    LET lowered   == Lower(filename)
        noext     == StripExtension(lowered)
        has_date  == HasDatePrefix(noext)
        name1     == IF has_date THEN Drop(noext, 10) ELSE noext
        is_signed == Contains(<<"_">> \o name1 \o <<"_">>, <<"_", "s", "_">>)
        \* re.search(r'_base(?:_(\d+))?$', name)
        k         == TrailingDigits(name1)
        baseBare  == EndsWith(name1, BaseWord)
        baseNum   == /\ k >= 1
                     /\ EndsWith(Take(name1, Len(name1) - k), BaseWord \o <<"_">>)
        is_base   == baseBare \/ baseNum
        \* re.search(r'_(\d+)$', name)
        denomNum  == /\ ~is_base
                     /\ k >= 1
                     /\ Len(name1) > k
                     /\ name1[Len(name1) - k] = "_"
        denominator == IF baseNum \/ denomNum
                       THEN ToInt(Drop(name1, Len(name1) - k + 1))
                       ELSE 0
        name2     == IF baseBare THEN Take(name1, Len(name1) - 5)
                     ELSE IF baseNum THEN Take(name1, Len(name1) - k - 6)
                     ELSE IF denomNum THEN Take(name1, Len(name1) - k - 1)
                     ELSE name1
        name3     == SubSignedMarker(name2)
        name4     == IF StartsWith(name3, <<"s", "_">>) THEN Drop(name3, 3) ELSE name3
        name5     == IF EndsWith(name4, <<"_", "s">>)
                     THEN Take(name4, Len(name4) - 2) ELSE name4
        all_parts == Split(name5, "_")
    IN  [original_name |-> filename,
         has_date      |-> has_date,
         date_prefix   |-> IF has_date THEN Take(noext, 8) ELSE <<>>,
         denominator   |-> denominator,
         is_signed     |-> is_signed,
         is_base       |-> is_base,
         all_parts     |-> all_parts,
         content_parts |-> FilterLen2(all_parts)]

----------------------------------------------------------------------------
(***************************************************************************)
(* difflib.SequenceMatcher(None, a, b).ratio(), as used by                 *)
(* _match_single_card (no junk; tokens are far shorter than the 200        *)
(* characters at which autojunk starts)                                    *)
(***************************************************************************)
\* length of the common prefix of a[i..ahi] and b[j..bhi]
RECURSIVE CommonPrefix(_, _, _, _, _, _)
CommonPrefix(a, b, i, j, ahi, bhi) ==
    IF i > ahi \/ j > bhi \/ a[i] # b[j] THEN 0
    ELSE 1 + CommonPrefix(a, b, i + 1, j + 1, ahi, bhi)

\* find_longest_match(alo, ahi, blo, bhi): the longest block, the earliest
\* in a among the longest, the earliest in b among those; <<i, j, 0>> when
\* nothing matches (bounds are inclusive here)
find_longest_match(a, b, alo, ahi, blo, bhi) ==
    LET starts == (alo..ahi) \X (blo..bhi)
        len(p) == CommonPrefix(a, b, p[1], p[2], ahi, bhi)
        better(p, q) == \/ len(p) > len(q)
                        \/ len(p) = len(q) /\ p[1] < q[1]
                        \/ len(p) = len(q) /\ p[1] = q[1] /\ p[2] < q[2]
    IN  IF starts = {} THEN <<alo, blo, 0>>
        ELSE LET best == CHOOSE p \in starts :
                             \A q \in starts \ {p} : better(p, q)
             IN  <<best[1], best[2], len(best)>>

\* the total size of get_matching_blocks()
RECURSIVE MatchingSize(_, _, _, _, _, _)
MatchingSize(a, b, alo, ahi, blo, bhi) ==
    LET m == find_longest_match(a, b, alo, ahi, blo, bhi)
    IN  IF m[3] = 0 THEN 0
        ELSE m[3]
             + MatchingSize(a, b, alo, m[1] - 1, blo, m[2] - 1)
             + MatchingSize(a, b, m[1] + m[3], ahi, m[2] + m[3], bhi)

\* ratio() = 2.0 * M / T as the pair <<2M, T>>; T > 0 for the tokens compared
\* (both have length >= 2)
RatioNum(a, b) == 2 * MatchingSize(a, b, 1, Len(a), 1, Len(b))
RatioDen(a, b) == Len(a) + Len(b)

\* the similarity threshold 0.70 as a fraction, and the length window
SimilarityNum == 70
SimilarityDen == 100
MaxLenDiff == 2

Abs(n) == IF n < 0 THEN -n ELSE n

\* FuzzyMatched without the length window (`if len_diff > 2: continue`)
FuzzyMatched_NoLengthWindow(card_part, file_parts) ==
    \E i \in DOMAIN file_parts :
        RatioNum(card_part, file_parts[i]) * SimilarityDen
           >= SimilarityNum * RatioDen(card_part, file_parts[i])

\* best_similarity >= 0.70 over the file parts whose length differs by at
\* most 2 from the card part
FuzzyMatched(card_part, file_parts) ==
    \E i \in DOMAIN file_parts :
        /\ Abs(Len(card_part) - Len(file_parts[i])) <= MaxLenDiff
        /\ RatioNum(card_part, file_parts[i]) * SimilarityDen
              >= SimilarityNum * RatioDen(card_part, file_parts[i])

PartMatched(card_part, file_parts) ==
    \/ card_part \in Range(file_parts)
    \/ FuzzyMatched(card_part, file_parts)

----------------------------------------------------------------------------
(***************************************************************************)
(* images.py: ImageMatcher._match_single_card                              *)
(***************************************************************************)
FullScore == 100
ExtraPenalty == 15
MinScore == 70

\* the hard rules without the signed rule
PassesHardRules_IgnoreSigned(card, file_info) ==
    /\ card.is_base = file_info.is_base
    /\ (~card.is_base /\ card.denominator > 0)
          => file_info.denominator = card.denominator

\* the hard rules without the denominator rule
PassesHardRules_IgnoreDenominator(card, file_info) ==
    /\ card.is_signed = file_info.is_signed
    /\ card.is_base = file_info.is_base

\* the three hard rules: signed, Base, denominator (when not Base)
PassesHardRules(card, file_info) ==
    /\ card.is_signed = file_info.is_signed
    /\ card.is_base = file_info.is_base
    /\ (~card.is_base /\ card.denominator > 0)
          => file_info.denominator = card.denominator

\* missing_parts = len(card_parts) - matched_parts
MissingParts(card_parts, file_parts) ==
    Len(card_parts)
    - Cardinality({i \in DOMAIN card_parts : PartMatched(card_parts[i], file_parts)})

\* extra_parts = max(0, len(file_parts) - len(card_parts))
ExtraParts(card_parts, file_parts) ==
    Max2(0, Len(file_parts) - Len(card_parts))

Score(extra_parts) == FullScore - extra_parts * ExtraPenalty

\* no minimum score
ScoreAccepted_NoThreshold(score) == TRUE

\* `if score >= 70: candidates.append(...)`
ScoreAccepted(score) == score >= MinScore

\* the candidates list, as the set of its (filename, score, extra_parts)
\* entries; the order of the list is the directory order, which the code
\* does not control
Candidates(card, files) ==
    LET card_parts == get_all_parts(card)
    IN  { [filename |-> f,
           score    |-> Score(ExtraParts(card_parts, files[f].content_parts)),
           extra    |-> ExtraParts(card_parts, files[f].content_parts)] :
          f \in { g \in DOMAIN files :
                    /\ PassesHardRules(card, files[g])
                    /\ MissingParts(card_parts, files[g].content_parts) = 0
                    /\ ScoreAccepted(Score(ExtraParts(card_parts,
                                                      files[g].content_parts))) } }

\* the sort with the score ascending
TopMatches_LowestScore(candidates) ==
    LET first == CHOOSE c \in candidates :
                     \A d \in candidates :
                         \/ c.score < d.score
                         \/ c.score = d.score /\ c.extra <= d.extra
    IN  { c \in candidates : c.score = first.score /\ c.extra = first.extra }

\* candidates.sort(key=(-score, extra)); top_matches = the entries equal to
\* the first one in score and extra
TopMatches(candidates) ==
    LET first == CHOOSE c \in candidates :
                     \A d \in candidates :
                         \/ c.score > d.score
                         \/ c.score = d.score /\ c.extra <= d.extra
    IN  { c \in candidates : c.score = first.score /\ c.extra = first.extra }

MatchResult(row_number, card_text, status, matched_file, conflict_files, log_message, match_score) ==
    [row_number     |-> row_number,
     card_text      |-> card_text,
     status         |-> status,
     matched_file   |-> matched_file,
     conflict_files |-> conflict_files,
     log_message    |-> log_message,
     match_score    |-> match_score]

\* a selection that takes one of the best files when several tie
SelectResult_PickOne(card, candidates) ==
    IF candidates = {}
    THEN MatchResult(card.row_number, card.raw_text, "missing", <<>>, {}, "debug_info", 0)
    ELSE LET best == CHOOSE c \in candidates :
                         \A d \in candidates : c.score >= d.score
         IN  MatchResult(card.row_number, card.raw_text, "found",
                         best.filename, {}, "", best.score)

\* the result for the candidates found (log messages are kept by kind)
SelectResult(card, candidates) ==
    IF candidates = {}
    THEN MatchResult(card.row_number, card.raw_text, "missing", <<>>, {}, "debug_info", 0)
    ELSE LET top == TopMatches(candidates)
             best == CHOOSE c \in top : TRUE
         IN  IF Cardinality(top) > 1
             THEN MatchResult(card.row_number, card.raw_text, "conflict", <<>>,
                              {c.filename : c \in top}, "same_score", best.score)
             ELSE MatchResult(card.row_number, card.raw_text, "found",
                              best.filename, {}, "", best.score)

match_single_card(card, files) == SelectResult(card, Candidates(card, files))

----------------------------------------------------------------------------
(***************************************************************************)
(* Text used by the inputs of the model                                    *)
(***************************************************************************)
\* str(n) for n >= 0
RECURSIVE NatToStr(_)
NatToStr(n) ==
    IF n < 10 THEN <<Digits[n + 1]>>
    ELSE NatToStr(n \div 10) \o <<Digits[(n % 10) + 1]>>

Imzali == <<"Idot", "m", "z", "a", "l", "inodot">>
PlayerArda == <<"A", "r", "d", "a", " ", "G", "uuml", "l", "e", "r">>
SeriesMythos == <<"M", "y", "t", "h", "o", "s">>
PlayerBaser == <<"B", "a", "s", "e", "r">>
SeriesGuler == <<"G", "uuml", "l", "e", "r">>

\* expand.py: RowExpander._build_variant_line
build_variant_line(player, label, denominator, number, is_signed) ==
    player \o <<" ">> \o label \o <<" ", "(">> \o NatToStr(number) \o <<"/">>
    \o NatToStr(denominator) \o <<")">>
    \o (IF is_signed THEN <<" ">> \o Imzali ELSE <<>>)

\* expand.py: the text of a Base card, f"{player} {label} Base"
base_line(player, label) ==
    player \o <<" ">> \o label \o <<" ", "B", "a", "s", "e">>

\* io_ops.py: the is_signed cell written by the exporter
SignedCell(is_signed) ==
    IF is_signed THEN <<"E", "v", "e", "t">>
    ELSE <<"H", "a", "y", "inodot", "r">>

\* one row of the output sheet: columns A, C, D, E, F, G
SheetRow(raw_text, player, series, group, denominator, is_signed) ==
    [raw_text |-> raw_text, player |-> player, series |-> series, group |-> group,
     denominator |-> denominator, is_signed |-> is_signed]

\* the rows a sheet of the model is made of: numbered cards (unsigned, signed,
\* with a series), a Base card, a hand-written row without denominator, and
\* a row whose card text is empty
RowPool ==
    { SheetRow(build_variant_line(PlayerArda, <<>>, 10, 1, FALSE),
               PlayerArda, <<>>, <<>>, <<"1", "0">>, SignedCell(FALSE)),
      SheetRow(build_variant_line(PlayerArda, <<>>, 10, 1, TRUE),
               PlayerArda, <<>>, <<>>, <<"1", "0">>, SignedCell(TRUE)),
      SheetRow(build_variant_line(PlayerArda, SeriesMythos, 10, 1, FALSE),
               PlayerArda, SeriesMythos, <<>>, <<"1", "0">>, SignedCell(FALSE)),
      SheetRow(base_line(PlayerArda, <<>>),
               PlayerArda, <<>>, <<>>, <<"1", "0">>, SignedCell(FALSE)),
      SheetRow(PlayerArda, PlayerArda, <<>>, <<>>, <<>>, SignedCell(FALSE)),
      SheetRow(<<>>, PlayerArda, <<>>, <<>>, <<"1", "0">>, SignedCell(FALSE)),
      SheetRow(build_variant_line(PlayerBaser, <<>>, 10, 1, FALSE),
               PlayerBaser, <<>>, <<>>, <<"1", "0">>, SignedCell(FALSE)),
      SheetRow(build_variant_line(PlayerArda, SeriesGuler, 10, 1, FALSE),
               PlayerArda, SeriesGuler, <<>>, <<"1", "0">>, SignedCell(FALSE)) }

\* file names of the model's image directory
tArda == <<"a", "r", "d", "a">>
tGuler == <<"g", "u", "l", "e", "r">>
tGular == <<"g", "u", "l", "a", "r">>
tGolar == <<"g", "o", "l", "a", "r">>
tArdaxyz == <<"a", "r", "d", "a", "x", "y", "z">>
tMythos == <<"m", "y", "t", "h", "o", "s">>
tLegends == <<"l", "e", "g", "e", "n", "d", "s">>
tGold == <<"g", "o", "l", "d">>
tBase == <<"b", "a", "s", "e">>
tS == <<"s">>
tTen == <<"1", "0">>
tDate == <<"2", "0", "2", "4", "0", "1", "0", "1">>
JpgExt == <<".", "j", "p", "g">>
FileName(segments) == Join(segments, <<"_">>) \o JpgExt

FilePool ==
    { FileName(<<tArda, tGuler, tTen>>),
      FileName(<<tArda, tGuler, tS, tTen>>),
      FileName(<<tDate, tS, tArda, tGuler, tTen>>),
      FileName(<<tArda, tGular, tTen>>),
      FileName(<<tArda, tGolar, tTen>>),
      FileName(<<tArdaxyz, tGuler, tTen>>),
      FileName(<<tArda, tGuler, tMythos, tTen>>),
      FileName(<<tArda, tGuler, tMythos, tLegends, tGold, tTen>>),
      FileName(<<tArda, tGuler, tBase>>),
      FileName(<<tArda, tGuler, tBase, tTen>>),
      FileName(<<tArda, tGuler>>) }

\* every sequence over S of length at most n
SeqsUpTo(S, n) == UNION { [1..k -> S] : k \in 0..n }

----------------------------------------------------------------------------
(***************************************************************************)
(* State of one ImageMatcher.process_all run                               *)
(***************************************************************************)
VARIABLES
    pc,            \* position in process_all
    parsed_files,  \* self.parsed_files: file name -> FileInfo
    sheet_rows,    \* the rows of the sheet read by _read_cards_from_excel
    cards,         \* the list returned by _read_cards_from_excel
    card_idx,      \* number of cards the loop of _match_all_cards has handled
    matches,       \* self.matches
    stats          \* self.stats

\* State of one checklist run (main.py: process_checklist, or
\* expand_checklist_rows called on a frame and its HeaderProcessor)
VARIABLES
    data,               \* the frame read from the checklist: headers and rows
    entry,              \* the function the run entered by
    dry_run,            \* process_checklist's dry_run argument
    header_processor,   \* the HeaderProcessor of data's columns
    validation_result,  \* the ValidationResult
    merged_data,        \* merged_data of expand_all_rows
    row_idx,            \* number of merged rows the loop of expand_all_rows has handled
    lines,              \* RowExpander.lines
    errors,             \* RowExpander.errors
    result_errors,      \* result['errors'] of process_checklist
    row_results,        \* per merged row, what _expand_single_row appended and whether it raised
    confirmation,       \* list_command: the answer to click.confirm, "none" before it is asked
    summary             \* ExpansionResult.summary

matchVars == <<parsed_files, sheet_rows, cards, card_idx, matches, stats>>
expandVars == <<data, entry, dry_run, header_processor, validation_result,
                merged_data, row_idx, lines, errors, result_errors, row_results,
                confirmation, summary>>
\* a single call of one of the text functions (normalize_for_matching,
\* _parse_filename, _calculate_shortened_name)
VARIABLES
    text_in,            \* the argument of the call
    text_out            \* what the call returned

\* one ImageShortener.process_all run
VARIABLES
    excel_column,       \* column B of the sheet: the image name of each row
    image_files,        \* the names of the files of image_dir
    items_to_process,   \* self.items_to_process
    item_idx,           \* number of items the loop of _rename_files has handled
    renamed,            \* per item, what _rename_files did with it
    shorten_stats       \* self.stats of the shortener

textVars == <<text_in, text_out>>
shortenVars == <<excel_column, image_files, items_to_process, item_idx, renamed,
                 shorten_stats>>
otherVars == <<textVars, shortenVars>>
vars == <<pc, matchVars, expandVars, otherVars>>

None == [none |-> TRUE]

\* no checklist run
ExpandIdle ==
    /\ data = [headers |-> <<>>, rows |-> <<>>]
    /\ entry = "none"
    /\ dry_run = FALSE
    /\ header_processor = None
    /\ validation_result = None
    /\ merged_data = <<>>
    /\ row_idx = 0
    /\ lines = <<>>
    /\ errors = <<>>
    /\ result_errors = <<>>
    /\ row_results = <<>>
    /\ confirmation = "none"
    /\ summary = None

\* no call of a text function
TextIdle ==
    /\ text_in = <<>>
    /\ text_out = None

\* no shortener run
ShortenIdle ==
    /\ excel_column = <<>>
    /\ image_files = {}
    /\ items_to_process = <<>>
    /\ item_idx = 0
    /\ renamed = <<>>
    /\ shorten_stats = [total |-> 0, shortened |-> 0, skipped |-> 0, error |-> 0]

\* no matcher run
MatchIdle ==
    /\ parsed_files = <<>>
    /\ sheet_rows = <<>>
    /\ cards = <<>>
    /\ card_idx = 0
    /\ matches = <<>>
    /\ stats = [found |-> 0, missing |-> 0, conflict |-> 0]

\* ImageMatcher.__init__
InitMatch ==
    /\ pc = "scan"
    /\ MatchIdle
    /\ ExpandIdle
    /\ TextIdle
    /\ ShortenIdle

\* _scan_and_parse_images on a directory holding the files of `dir`
ScanAndParseImages ==
    /\ pc = "scan"
    /\ \E dir \in SUBSET FilePool :
          /\ Cardinality(dir) \in 1..MaxFiles
          /\ parsed_files' = [f \in dir |-> parse_filename(f)]
    /\ pc' = "read"
    /\ UNCHANGED <<sheet_rows, cards, card_idx, matches, stats, expandVars, otherVars>>

\* _scan_and_parse_images on a directory without image: ValueError, which
\* process_all re-raises
ScanNoImages ==
    /\ pc = "scan"
    /\ pc' = "failed"
    /\ UNCHANGED <<parsed_files, sheet_rows, cards, card_idx, matches, stats, expandVars, otherVars>>

\* int(float(denom_val)) of column F, 0 for an empty or non-numeric cell
DenominatorCell(cell) ==
    IF cell # <<>> /\ \A i \in DOMAIN cell : IsDigit(cell[i]) THEN ToInt(cell) ELSE 0

SignedWords == { <<"e", "v", "e", "t">>, <<"t", "r", "u", "e">>, <<"1">>,
                 <<"y", "e", "s">> }

\* the loop without `if not raw_text: continue`
RECURSIVE ReadRows_KeepEmpty(_, _)
ReadRows_KeepEmpty(sheet, idx) ==
    IF idx > Len(sheet) THEN <<>>
    ELSE LET row == sheet[idx]
         IN  <<CardInfo(idx + 1, row.raw_text, row.player, row.series,
                        row.group, DenominatorCell(row.denominator),
                        Lower(row.is_signed) \in SignedWords,
                        Contains(Lower(row.raw_text), tBase))>>
             \o ReadRows_KeepEmpty(sheet, idx + 1)

\* the loop of _read_cards_from_excel over the rows from index idx on
RECURSIVE ReadRows(_, _)
ReadRows(sheet, idx) ==
    IF idx > Len(sheet) THEN <<>>
    ELSE LET row == sheet[idx]
             card == CardInfo(idx + 1, row.raw_text, row.player, row.series,
                              row.group, DenominatorCell(row.denominator),
                              Lower(row.is_signed) \in SignedWords,
                              Contains(Lower(row.raw_text), tBase))
         IN  (IF row.raw_text = <<>> THEN <<>> ELSE <<card>>)
             \o ReadRows(sheet, idx + 1)

\* _read_cards_from_excel
ReadCardsFromExcel ==
    /\ pc = "read"
    /\ \E sheet \in SeqsUpTo(RowPool, MaxCards) :
          /\ sheet_rows' = sheet
          /\ cards' = ReadRows(sheet, 1)
    /\ pc' = "match"
    /\ UNCHANGED <<parsed_files, card_idx, matches, stats, expandVars, otherVars>>

\* one iteration of the loop of _match_all_cards
MatchNextCard ==
    /\ pc = "match"
    /\ card_idx < Len(cards)
    /\ LET result == match_single_card(cards[card_idx + 1], parsed_files)
       IN  /\ matches' = Append(matches, result)
           /\ stats' = [stats EXCEPT ![result.status] = @ + 1]
    /\ card_idx' = card_idx + 1
    /\ UNCHANGED <<pc, parsed_files, sheet_rows, cards, expandVars, otherVars>>

\* the loop of _match_all_cards ends
MatchAllDone ==
    /\ pc = "match"
    /\ card_idx = Len(cards)
    /\ pc' = "done"
    /\ UNCHANGED <<parsed_files, sheet_rows, cards, card_idx, matches, stats, expandVars, otherVars>>

Next ==
    \/ ScanAndParseImages
    \/ ScanNoImages
    \/ ReadCardsFromExcel
    \/ MatchNextCard
    \/ MatchAllDone

Spec == InitMatch /\ [][Next]_vars

----------------------------------------------------------------------------
(***************************************************************************)
(* Properties of the matcher                                               *)
(***************************************************************************)
Results == Range(matches)
\* the card a result was computed for
CardOfResult(m) == CHOOSE c \in Range(cards) : c.row_number = m.row_number
\* the files a result selects: the matched file and the conflicting files
SelectedFiles(m) ==
    (IF m.matched_file = <<>> THEN {} ELSE {m.matched_file}) \cup m.conflict_files
FileNames == DOMAIN parsed_files
PartsOf(m) == get_all_parts(CardOfResult(m))
\* a card token with no equal file token and no file token within two
\* characters of its length whose similarity reaches 0.70
TokenUnmatched(card_part, file_parts) ==
    /\ \A i \in DOMAIN file_parts : file_parts[i] # card_part
    /\ \A i \in DOMAIN file_parts :
          Abs(Len(card_part) - Len(file_parts[i])) <= 2
             => 100 * RatioNum(card_part, file_parts[i])
                   < 70 * RatioDen(card_part, file_parts[i])
HasUnmatchedToken(m, f) ==
    \E i \in DOMAIN PartsOf(m) :
        TokenUnmatched(PartsOf(m)[i], parsed_files[f].content_parts)
\* the three hard rules, stated on the card and the parsed file
HardRulesHold(m, f) ==
    LET card == CardOfResult(m)
        file == parsed_files[f]
    IN  /\ card.is_signed = file.is_signed
        /\ card.is_base = file.is_base
        /\ (card.is_base \/ card.denominator <= 0
              \/ file.denominator = card.denominator)
ExtraCount(m, f) ==
    IF Len(parsed_files[f].content_parts) > Len(PartsOf(m))
    THEN Len(parsed_files[f].content_parts) - Len(PartsOf(m)) ELSE 0

\* C1: the file of a found result and every file of a conflict result has
\* the card's signed flag: a signed card never matches an unsigned file and
\* an unsigned card never matches a signed one.
C1_SignedExclusive ==
    \A m \in Results : \A f \in SelectedFiles(m) :
        /\ f \in FileNames
        /\ parsed_files[f].is_signed = CardOfResult(m).is_signed

\* a card was matched to a file while the directory holds a file of the other
\* signed flag whose content tokens all match the card
C1_Witness ==
    \E m \in Results :
        /\ m.status = "found"
        /\ \E g \in FileNames :
              /\ parsed_files[g].is_signed # CardOfResult(m).is_signed
              /\ parsed_files[g].content_parts
                    = parsed_files[m.matched_file].content_parts
              /\ parsed_files[g].denominator = CardOfResult(m).denominator
              /\ ~HasUnmatchedToken(m, g)

\* C2: a file for which some card token has neither an equal file token nor
\* a file token (length difference <= 2) of similarity >= 0.70 is never
\* selected, and when every file is so, the result is missing.
C2_MissingTokenRejected ==
    \A m \in Results :
        /\ \A f \in FileNames :
              HasUnmatchedToken(m, f) => f \notin SelectedFiles(m)
        /\ (\A f \in FileNames : HasUnmatchedToken(m, f)) => m.status = "missing"

\* the only files passing the hard rules have an unmatched card token (one
\* of them only for a file token outside the length window) and the result
\* is missing
C2_Witness ==
    \E m \in Results :
        /\ m.status = "missing"
        /\ \E f \in FileNames : HardRulesHold(m, f) /\ HasUnmatchedToken(m, f)
        /\ \A f \in FileNames : HasUnmatchedToken(m, f)

\* the candidates of a result's card and those of the highest score
CandidatesOf(m) == Candidates(CardOfResult(m), parsed_files)
TiedBest(m) ==
    { c.filename : c \in { c \in CandidatesOf(m) :
                             \A d \in CandidatesOf(m) : c.score >= d.score } }

\* C3: when two or more candidates share the highest score the result is a
\* conflict listing all of them, with no matched file; conflict_files is
\* non-empty only in a conflict.
C3_TieIsConflict ==
    \A m \in Results :
        /\ Cardinality(TiedBest(m)) >= 2
              => /\ m.status = "conflict"
                 /\ m.conflict_files = TiedBest(m)
                 /\ m.matched_file = <<>>
        /\ m.conflict_files # {} => m.status = "conflict"

\* two files tie for a card
C3_Witness ==
    \E m \in Results :
        /\ Cardinality(TiedBest(m)) >= 2
        /\ m.status = "conflict"

\* C4: a found result's file passed the three hard rules, has no missing card
\* token, and scores strictly more than every other candidate.
C4_FoundIsStrictBest ==
    \A m \in Results :
        m.status = "found" =>
            /\ m.matched_file \in FileNames
            /\ HardRulesHold(m, m.matched_file)
            /\ ~HasUnmatchedToken(m, m.matched_file)
            /\ m.match_score = 100 - 15 * ExtraCount(m, m.matched_file)
            /\ \A c \in CandidatesOf(m) :
                  c.filename # m.matched_file => c.score < m.match_score

\* a file is found ahead of another candidate of lower score
C4_Witness ==
    \E m \in Results :
        /\ m.status = "found"
        /\ \E c \in CandidatesOf(m) : c.filename # m.matched_file

\* C5 as stated: the result is missing only when no file passes the hard
\* rules with every card token matched.
C5_MissingOnlyWithoutFullMatch ==
    \A m \in Results :
        m.status = "missing" =>
            ~\E f \in FileNames : HardRulesHold(m, f) /\ ~HasUnmatchedToken(m, f)

\* C5 (amended): a file passing the hard rules with every card token matched
\* is a candidate exactly when it has at most 2 extra tokens (score >= 70);
\* the result is missing exactly when no file is so.
C5_MissingIffNoAcceptedFile ==
    \A m \in Results :
        /\ m.status = "missing"
              <=> ~\E f \in FileNames :
                      /\ HardRulesHold(m, f)
                      /\ ~HasUnmatchedToken(m, f)
                      /\ ExtraCount(m, f) <= 2
        /\ \A f \in FileNames :
              (f \in {c.filename : c \in CandidatesOf(m)})
                 <=> (/\ HardRulesHold(m, f)
                      /\ ~HasUnmatchedToken(m, f)
                      /\ ExtraCount(m, f) <= 2)

\* a file passes the hard rules with every card token matched, has three
\* extra tokens, and the result is missing
C5_Witness ==
    \E m \in Results :
        /\ m.status = "missing"
        /\ \E f \in FileNames :
              /\ HardRulesHold(m, f)
              /\ ~HasUnmatchedToken(m, f)
              /\ ExtraCount(m, f) > 2

\* C6: every selected file has the card's Base flag, and the card's
\* denominator when the card is not Base and its denominator is > 0; a file
\* with neither Base marker nor numeric suffix is never selected for such a
\* card.
C6_BaseAndDenominator ==
    \A m \in Results : \A f \in SelectedFiles(m) :
        LET card == CardOfResult(m)
        IN  /\ f \in FileNames
            /\ parsed_files[f].is_base = card.is_base
            /\ (~card.is_base /\ card.denominator > 0)
                  => /\ parsed_files[f].denominator = card.denominator
                     /\ parsed_files[f].denominator # 0

\* a card with a denominator is matched while the directory also holds a file
\* of the same content without Base marker and without numeric suffix
C6_Witness ==
    \E m \in Results :
        /\ m.status = "found"
        /\ ~CardOfResult(m).is_base
        /\ CardOfResult(m).denominator > 0
        /\ \E g \in FileNames :
              /\ g # m.matched_file
              /\ ~parsed_files[g].is_base
              /\ parsed_files[g].denominator = 0
              /\ parsed_files[g].is_signed = CardOfResult(m).is_signed
              /\ ~HasUnmatchedToken(m, g)

\* the text of a Base record is f"{player} {label} Base"
IsBaseRecordText(raw_text) == EndsWith(raw_text, <<" ", "B", "a", "s", "e">>)

\* C28: the matcher takes a card for Base exactly when the record is a Base
\* record: a card of a numbered variant or custom label never has is_base,
\* whatever its player, series or group text contains.
C28_BaseOnlyForBaseRecords ==
    \A k \in DOMAIN cards :
        cards[k].is_base <=> IsBaseRecordText(cards[k].raw_text)

\* the card of a numbered variant (1/10) whose player name contains "base"
\* is read as a Base card, and no file is matched to it
C28_NumberedCardReadAsBase ==
    /\ pc = "done"
    /\ \E k \in DOMAIN cards :
          /\ cards[k].raw_text = build_variant_line(PlayerBaser, <<>>, 10, 1, FALSE)
          /\ cards[k].denominator = 10
          /\ cards[k].is_base
          /\ matches[k].status = "missing"

\* what the reader does: is_base is set when the lowercased text of the card
\* contains "base" anywhere
BaseFlagIsSubstringTest ==
    \A k \in DOMAIN cards :
        cards[k].is_base <=> Contains(Lower(cards[k].raw_text), tBase)

\* the positions of the file's content tokens that are not among the tokens
\* of the result's card
ForeignTokens(m, f) ==
    { i \in DOMAIN parsed_files[f].content_parts :
        \A j \in DOMAIN PartsOf(m) :
            PartsOf(m)[j] # parsed_files[f].content_parts[i] }

\* the positions of the file's content tokens that match no token of the
\* result's card, neither by equality nor by similarity
UnrelatedTokens(m, f) ==
    { i \in DOMAIN parsed_files[f].content_parts :
        \A j \in DOMAIN PartsOf(m) :
            TokenUnmatched(PartsOf(m)[j],
                           <<parsed_files[f].content_parts[i]>>) }

\* C29: the extra-token count of a scored file is the number of its content
\* tokens that are not among the card's tokens; a file passing the hard rules
\* with no missing token scores 100 - 15 x that count and is a candidate
\* exactly when that score is >= 70, so a file holding a token foreign to the
\* card never scores 100.
C29_ExtraCountIsForeignTokens ==
    \A m \in Results :
        /\ \A c \in CandidatesOf(m) :
              /\ c.extra = Cardinality(ForeignTokens(m, c.filename))
              /\ c.score = FullScore - ExtraPenalty * c.extra
              /\ ForeignTokens(m, c.filename) # {} => c.score < FullScore
        /\ \A f \in FileNames :
              HardRulesHold(m, f) /\ ~HasUnmatchedToken(m, f)
                 => ((f \in {c.filename : c \in CandidatesOf(m)})
                       <=> FullScore - ExtraPenalty
                              * Cardinality(ForeignTokens(m, f)) >= MinScore)

\* a card was matched with score 100 to a file holding a token that matches
\* none of the card's tokens
C29_ForeignTokenScoresFull ==
    \E m \in Results :
        /\ m.status = "found"
        /\ m.match_score = FullScore
        /\ UnrelatedTokens(m, m.matched_file) # {}

\* the extra-token count is the number of tokens the file has more than the
\* card; the score is 100 - 15 x that count and candidates score >= 70
ExtraCountIsLengthDifference ==
    \A m \in Results : \A c \in CandidatesOf(m) :
        /\ c.extra = ExtraCount(m, c.filename)
        /\ c.score = FullScore - ExtraPenalty * c.extra
        /\ c.score >= MinScore

\* the statuses _match_single_card and _match_all_cards give a result
MatchStatuses == {"found", "missing", "conflict"}

\* the results recorded for the sheet row of Excel row number row_number
ResultsOfRow(row_number) ==
    {k \in DOMAIN matches : matches[k].row_number = row_number}

\* the card records read from the sheet row of Excel row number row_number
CardsOfRow(row_number) ==
    {k \in DOMAIN cards : cards[k].row_number = row_number}

\* a step of the matcher leaves self.matches alone or appends one result
\* for the next card; no recorded result is changed or removed
AppendsOneResult ==
    \/ matches' = matches
    \/ /\ Len(matches') = Len(matches) + 1
       /\ SubSeq(matches', 1, Len(matches)) = matches
       /\ card_idx' = card_idx + 1
       /\ matches'[Len(matches')].row_number = cards[card_idx'].row_number

C19_EmptyRowHasNoResult ==
    /\ pc = "done"
    /\ \E i \in DOMAIN sheet_rows :
          /\ sheet_rows[i].raw_text = <<>>
          /\ ResultsOfRow(i + 1) = {}

----------------------------------------------------------------------------
(***************************************************************************)
(* utils.py: normalize_text, safe_int                                      *)
(***************************************************************************)
\* text.strip()
RECURSIVE normalize_text(_)
normalize_text(text) ==
    IF text = <<>> THEN text
    ELSE IF text[1] = " " THEN normalize_text(Tail(text))
    ELSE IF text[Len(text)] = " " THEN normalize_text(Take(text, Len(text) - 1))
    ELSE text

\* is_numeric_value on a cell read as text: float(str(value)) succeeds on a
\* decimal numeral with an optional minus sign (surrounding blanks allowed)
\* and fails on the other texts of the model (empty cells, words)
IsNumeral(t) ==
    LET ds == IF t # <<>> /\ t[1] = "-" THEN Tail(t) ELSE t
    IN  ds # <<>> /\ \A i \in DOMAIN ds : IsDigit(ds[i])
is_numeric_value(value) == IsNumeral(normalize_text(value))

\* safe_int: int(float(str(value))) of a numeric value, else the default 0
safe_int(value) ==
    LET t == normalize_text(value)
    IN  IF ~is_numeric_value(value) THEN 0
        ELSE IF t[1] = "-" THEN 0 - ToInt(Tail(t))
        ELSE ToInt(t)

\* str(n) of an int
IntToStr(n) == IF n < 0 THEN <<"-">> \o NatToStr(0 - n) ELSE NatToStr(n)

\* `pd.notna(cell) and str(cell).strip()`
CellPresent(value) == normalize_text(value) # <<>>

----------------------------------------------------------------------------
(***************************************************************************)
(* headers.py: HeaderProcessor                                             *)
(***************************************************************************)
hSeriAdi == <<"S", "e", "r", "i", " ", "A", "d", "inodot">>
hOyuncuAdi == <<"O", "y", "u", "n", "c", "u", " ", "A", "d", "inodot">>
hBase == <<"B", "a", "s", "e">>
hGrup == <<"G", "r", "u", "p">>
hGrupOpsiyonel == hGrup \o <<" ", "(", "o", "p", "s", "i", "y", "o", "n", "e", "l", ")">>
hOneOfOne == <<"1", "/", "1">>

\* REQUIRED_COLUMNS, in the order the model reports the missing ones (the
\* code iterates a set)
REQUIRED_COLUMNS == <<hSeriAdi, hOyuncuAdi, hBase>>

RESERVED_COLUMN_NAMES ==
    { Lower(hSeriAdi), <<"s", "e", "r", "i", " ", "a", "d", "i">>,
      Lower(hOyuncuAdi), <<"o", "y", "u", "n", "c", "u", " ", "a", "d", "i">>,
      Lower(hGrup), Lower(hGrupOpsiyonel), Lower(hBase) }

\* the letters of the text_denom patterns: [A-Za-z] and the Turkish letters
IsPatternLetter(c) ==
    \/ c \in Range(LowerCase) \/ c \in Range(UpperCase)
    \/ c \in {"Ccedil", "ccedil", "Gbreve", "gbreve", "Idot", "inodot",
              "Ouml", "ouml", "Scedil", "scedil", "Uuml", "uuml"}

\* number of leading blanks of s
RECURSIVE LeadingSpaces(_)
LeadingSpaces(s) ==
    IF s = <<>> \/ s[1] # " " THEN 0 ELSE 1 + LeadingSpaces(Tail(s))

\* number of leading digits of s
RECURSIVE LeadingDigits(_)
LeadingDigits(s) ==
    IF s = <<>> \/ ~IsDigit(s[1]) THEN 0 ELSE 1 + LeadingDigits(Tail(s))

\* the parts of a header of the shape "/<digits><blanks><rest>":
\* ok is FALSE when the header does not start with "/" and a digit
SlashNumber(h) ==
    LET k == IF h # <<>> /\ h[1] = "/" THEN LeadingDigits(Tail(h)) ELSE 0
        after == Drop(h, k + 2)
        sp == LeadingSpaces(after)
    IN  [ok |-> k >= 1,
         digits |-> SubSeq(h, 2, k + 1),
         blanks |-> sp,
         rest |-> Drop(after, sp + 1)]

VariantInfo(column_name, denominator, is_signed, display_name) ==
    [column_name |-> column_name, denominator |-> denominator,
     is_signed |-> is_signed, display_name |-> display_name]

\* a denominator is an int or a text (Union[int, str])
IntDenom(n) == [numeric |-> TRUE, n |-> n, text |-> <<>>]
TextDenom(t) == [numeric |-> FALSE, n |-> 0, text |-> t]

\* _normalize_single_header
normalize_single_header(header) ==
    LET stripped == normalize_text(header)
        n1 == IF stripped = hGrupOpsiyonel THEN hGrup
              ELSE IF stripped = hOneOfOne \o Imzali THEN hOneOfOne \o <<" ">> \o Imzali
              ELSE stripped
        sn == SlashNumber(n1)
        \* re.match(r"^/(\d+)\s*İmzalı?$", normalized)
        numbered == sn.ok /\ sn.rest \in {Imzali, Take(Imzali, 5)}
    IN  IF numbered
        THEN IF Contains(n1, Imzali)
             THEN <<"/">> \o sn.digits \o <<" ">> \o Imzali
             ELSE <<"/">> \o sn.digits
        ELSE n1

\* the text before the final "<blanks>İmzalı" of a header matching
\* signed_text_denom, stripped; <<>> when the pattern does not match
SignedTextDenom(h) ==
    LET prefix == Take(h, Len(h) - Len(Imzali))
    IN  IF /\ EndsWith(h, Imzali)
           /\ Len(prefix) >= 2
           /\ prefix[Len(prefix)] = " "
           /\ IsPatternLetter(prefix[1])
           /\ \A i \in DOMAIN prefix :
                 IsPatternLetter(prefix[i]) \/ IsDigit(prefix[i]) \/ prefix[i] = " "
        THEN normalize_text(prefix)
        ELSE <<>>

\* the header when it matches text_denom, stripped; <<>> otherwise
PlainTextDenom(h) ==
    IF /\ h # <<>>
       /\ IsPatternLetter(h[1])
       /\ \A i \in DOMAIN h : IsPatternLetter(h[i]) \/ IsDigit(h[i]) \/ h[i] = " "
    THEN normalize_text(h)
    ELSE <<>>

NoVariant == VariantInfo(<<>>, IntDenom(0), FALSE, <<>>)

\* a classification that does not exclude the reserved column names
detect_variant_NoReserved(normalized_header) ==
    LET sn == SlashNumber(normalized_header)
        one == StartsWith(normalized_header, hOneOfOne)
        afterOne == Drop(normalized_header, 4)
        signedText == SignedTextDenom(normalized_header)
        plainText == PlainTextDenom(normalized_header)
    IN  IF normalized_header = hOneOfOne
        THEN VariantInfo(normalized_header, IntDenom(1), FALSE, hOneOfOne)
        ELSE IF one /\ LeadingSpaces(afterOne) >= 1
                /\ Drop(afterOne, LeadingSpaces(afterOne) + 1) = Imzali
        THEN VariantInfo(normalized_header, IntDenom(1), TRUE,
                         hOneOfOne \o <<" ">> \o Imzali)
        ELSE IF sn.ok /\ sn.blanks = 0 /\ sn.rest = <<>>
        THEN VariantInfo(normalized_header, IntDenom(ToInt(sn.digits)), FALSE,
                         <<"/">> \o NatToStr(ToInt(sn.digits)))
        ELSE IF sn.ok /\ sn.blanks >= 1 /\ sn.rest = Imzali
        THEN VariantInfo(normalized_header, IntDenom(ToInt(sn.digits)), TRUE,
                         <<"/">> \o NatToStr(ToInt(sn.digits)) \o <<" ">> \o Imzali)
        ELSE IF signedText # <<>>
        THEN VariantInfo(normalized_header, TextDenom(signedText), TRUE,
                         signedText \o <<" ">> \o Imzali)
        ELSE IF plainText # <<>>
        THEN VariantInfo(normalized_header, TextDenom(plainText), FALSE, plainText)
        ELSE NoVariant

\* _detect_variant: NoVariant stands for None (a column name is never empty
\* in a variant)
detect_variant(normalized_header) ==
    LET sn == SlashNumber(normalized_header)
        one == StartsWith(normalized_header, hOneOfOne)
        afterOne == Drop(normalized_header, 4)
        signedText == SignedTextDenom(normalized_header)
        plainText == PlainTextDenom(normalized_header)
    IN  IF normalized_header = hOneOfOne
        THEN VariantInfo(normalized_header, IntDenom(1), FALSE, hOneOfOne)
        ELSE IF one /\ LeadingSpaces(afterOne) >= 1
                /\ Drop(afterOne, LeadingSpaces(afterOne) + 1) = Imzali
        THEN VariantInfo(normalized_header, IntDenom(1), TRUE,
                         hOneOfOne \o <<" ">> \o Imzali)
        ELSE IF sn.ok /\ sn.blanks = 0 /\ sn.rest = <<>>
        THEN VariantInfo(normalized_header, IntDenom(ToInt(sn.digits)), FALSE,
                         <<"/">> \o NatToStr(ToInt(sn.digits)))
        ELSE IF sn.ok /\ sn.blanks >= 1 /\ sn.rest = Imzali
        THEN VariantInfo(normalized_header, IntDenom(ToInt(sn.digits)), TRUE,
                         <<"/">> \o NatToStr(ToInt(sn.digits)) \o <<" ">> \o Imzali)
        ELSE IF signedText # <<>> /\ Lower(signedText) \notin RESERVED_COLUMN_NAMES
        THEN VariantInfo(normalized_header, TextDenom(signedText), TRUE,
                         signedText \o <<" ">> \o Imzali)
        ELSE IF plainText # <<>> /\ Lower(plainText) \notin RESERVED_COLUMN_NAMES
        THEN VariantInfo(normalized_header, TextDenom(plainText), FALSE, plainText)
        ELSE NoVariant

\* self.variants[normalized] = variant_info on a dict kept as the sequence
\* of its values in insertion order
DictPut(variants, info) ==
    IF \E i \in DOMAIN variants : variants[i].column_name = info.column_name
    THEN [i \in DOMAIN variants |->
            IF variants[i].column_name = info.column_name THEN info ELSE variants[i]]
    ELSE Append(variants, info)

\* int(digits) raises ValueError
IntRaises(digits) == \E i \in DOMAIN digits : digits[i] = NinesRun

\* _detect_variant raises: the header is a numbered or a signed numbered
\* column whose digits int() refuses
VariantRaises(normalized_header) ==
    LET sn == SlashNumber(normalized_header)
    IN  /\ sn.ok
        /\ IntRaises(sn.digits)
        /\ \/ sn.blanks = 0 /\ sn.rest = <<>>
           \/ sn.blanks >= 1 /\ sn.rest = Imzali

\* the loop of _process_headers: normalized_headers, variants and errors.
\* The normalized header is appended before _detect_variant is called, and
\* the handler of a raise appends the header itself
RECURSIVE NormalizedHeaders(_)
NormalizedHeaders(headers) ==
    IF headers = <<>> THEN <<>>
    ELSE LET normalized == normalize_single_header(Head(headers))
         IN  <<normalized>>
             \o (IF VariantRaises(normalized) THEN <<Head(headers)>> ELSE <<>>)
             \o NormalizedHeaders(Tail(headers))

RECURSIVE DetectVariants(_, _)
DetectVariants(headers, variants) ==
    IF headers = <<>> THEN variants
    ELSE LET normalized == normalize_single_header(Head(headers))
             info == IF VariantRaises(normalized) THEN NoVariant
                     ELSE detect_variant(normalized)
         IN  DetectVariants(Tail(headers),
                            IF info = NoVariant THEN variants
                            ELSE DictPut(variants, info))

RECURSIVE HeaderErrors(_)
HeaderErrors(headers) ==
    IF headers = <<>> THEN <<>>
    ELSE (IF VariantRaises(normalize_single_header(Head(headers)))
          THEN <<[column |-> Head(headers), type |-> "Header Error"]>>
          ELSE <<>>)
         \o HeaderErrors(Tail(headers))

\* get_column_index: the 1-based position, 0 for None
get_column_index(normalized, column_name) ==
    IF column_name \in Range(normalized)
    THEN CHOOSE i \in DOMAIN normalized :
             normalized[i] = column_name /\ \A j \in 1..(i - 1) : normalized[j] # column_name
    ELSE 0

\* _validate_required_columns: one error per missing required column
RECURSIVE MissingColumnErrors(_, _)
MissingColumnErrors(required, normalized) ==
    IF required = <<>> THEN <<>>
    ELSE (IF Head(required) \in Range(normalized) THEN <<>>
          ELSE <<[column |-> Head(required), type |-> "Missing Column"]>>)
         \o MissingColumnErrors(Tail(required), normalized)

\* the denominators of the variants in order of first appearance
RECURSIVE DenominatorsOf(_, _)
DenominatorsOf(variants, seen) ==
    IF variants = <<>> THEN seen
    ELSE DenominatorsOf(Tail(variants),
                        IF Head(variants).denominator \in Range(seen) THEN seen
                        ELSE Append(seen, Head(variants).denominator))

VariantsOfDenominator(variants, denom) ==
    {i \in DOMAIN variants : variants[i].denominator = denom}

\* a duplicate detection that accepts any two descriptors of a denominator
RECURSIVE DuplicateFindings_AnyPair(_, _, _)
DuplicateFindings_AnyPair(denoms, variants, kind) ==
    IF denoms = <<>> THEN <<>>
    ELSE LET same == VariantsOfDenominator(variants, Head(denoms))
             column == <<"/">> \o (IF Head(denoms).numeric THEN NatToStr(Head(denoms).n)
                                   ELSE Head(denoms).text)
         IN  (IF Cardinality(same) > 2 /\ kind = "Duplicate Variant"
              THEN <<[column |-> column, type |-> kind]>> ELSE <<>>)
             \o DuplicateFindings_AnyPair(Tail(denoms), variants, kind)

\* _detect_duplicate_variants: the errors (kind "Duplicate Variant") and the
\* warnings (kind "Variant Pair") per denominator
RECURSIVE DuplicateFindings(_, _, _)
DuplicateFindings(denoms, variants, kind) ==
    IF denoms = <<>> THEN <<>>
    ELSE LET same == VariantsOfDenominator(variants, Head(denoms))
             signed_count == Cardinality({i \in same : variants[i].is_signed})
             found == IF Cardinality(same) > 2 THEN "Duplicate Variant"
                      ELSE IF Cardinality(same) = 2 /\ signed_count # 1
                      THEN "Variant Pair"
                      ELSE "none"
             \* f"/{denom}"
             column == <<"/">> \o (IF Head(denoms).numeric THEN NatToStr(Head(denoms).n)
                                   ELSE Head(denoms).text)
         IN  (IF found = kind
              THEN <<[column |-> column, type |-> kind]>> ELSE <<>>)
             \o DuplicateFindings(Tail(denoms), variants, kind)

\* detect_custom_labels: the keys of the dict, in insertion order
SkipColumns == {hBase, hSeriAdi, hOyuncuAdi, hGrup, hGrupOpsiyonel}
RECURSIVE detect_custom_labels(_, _, _)
detect_custom_labels(normalized, variants, labels) ==
    IF normalized = <<>> THEN labels
    ELSE LET h == Head(normalized)
             skip == \/ h \in SkipColumns
                     \/ \E i \in DOMAIN variants : variants[i].column_name = h
                     \/ h \in Range(labels)
         IN  detect_custom_labels(Tail(normalized), variants,
                                  IF skip THEN labels ELSE Append(labels, h))

\* get_variant_pairs: the dict denominator -> {'normal', 'signed'} as the
\* sequence of its items in insertion order; NoVariant stands for None
get_variant_pairs(variants) ==
    LET denoms == DenominatorsOf(variants, <<>>)
        last(denom, signed) ==
            LET same == {i \in VariantsOfDenominator(variants, denom) :
                            variants[i].is_signed = signed}
            IN  IF same = {} THEN NoVariant
                ELSE variants[CHOOSE i \in same : \A j \in same : j <= i]
    IN  [k \in DOMAIN denoms |->
            [denominator |-> denoms[k],
             normal |-> last(denoms[k], FALSE),
             signed |-> last(denoms[k], TRUE)]]

----------------------------------------------------------------------------
(***************************************************************************)
(* expand.py: RowExpander                                                  *)
(* A data frame is the sequence of its column names (the original headers) *)
(* and the sequence of its rows, each a sequence of cells aligned with the *)
(* columns; cells are text (read_excel with dtype=str, na_filter=False).    *)
(***************************************************************************)
CardLine(text, player, label, variant_type, denominator, number, is_signed, series, group) ==
    [text |-> text, player |-> player, label |-> label,
     variant_type |-> variant_type, denominator |-> denominator,
     number |-> number, is_signed |-> is_signed, series |-> series,
     group |-> group]

\* the header processor as the expander reads it
HeaderProcessor(headers) ==
    LET normalized == NormalizedHeaders(headers)
        variants == DetectVariants(headers, <<>>)
    IN  [original_headers |-> headers,
         normalized_headers |-> normalized,
         variants |-> variants,
         errors |-> HeaderErrors(headers)
                    \o MissingColumnErrors(REQUIRED_COLUMNS, normalized)
                    \o DuplicateFindings(DenominatorsOf(variants, <<>>), variants,
                                         "Duplicate Variant"),
         warnings |-> DuplicateFindings(DenominatorsOf(variants, <<>>), variants,
                                        "Variant Pair"),
         custom_labels |-> detect_custom_labels(normalized, variants, <<>>)]

series_idx(hp) == get_column_index(hp.normalized_headers, hSeriAdi)
player_idx(hp) == get_column_index(hp.normalized_headers, hOyuncuAdi)
group_idx(hp) == get_column_index(hp.normalized_headers, hGrup)
base_idx(hp) == get_column_index(hp.normalized_headers, hBase)

\* _get_label_for_row
get_label_for_row(hp, row) ==
    IF group_idx(hp) # 0 /\ normalize_text(row[group_idx(hp)]) # <<>>
    THEN normalize_text(row[group_idx(hp)])
    ELSE IF series_idx(hp) # 0 THEN normalize_text(row[series_idx(hp)])
    ELSE <<"U", "n", "k", "n", "o", "w", "n">>

\* the grouping key f"{player}|{label}"
grouping_key(hp, row) ==
    normalize_text(row[player_idx(hp)]) \o <<"|">> \o get_label_for_row(hp, row)

\* numeric_columns of _merge_duplicate_rows: the column names of the variant
\* pairs, and 'Base' when there is a Base column
numeric_columns(hp) ==
    LET pairs == get_variant_pairs(hp.variants)
    IN  { pairs[k].normal.column_name : k \in {j \in DOMAIN pairs :
              /\ pairs[j].normal # NoVariant
              /\ get_column_index(hp.normalized_headers, pairs[j].normal.column_name) # 0} }
        \cup
        { pairs[k].signed.column_name : k \in {j \in DOMAIN pairs :
              /\ pairs[j].signed # NoVariant
              /\ get_column_index(hp.normalized_headers, pairs[j].signed.column_name) # 0} }
        \cup (IF base_idx(hp) # 0 THEN {hBase} ELSE {})

\* code points order the grouping keys (groupby sorts its keys)
CodePointOrder ==
    <<" ", "(", ")", "-", "/">> \o Digits \o UpperCase \o <<"_">> \o LowerCase
    \o <<"|", "Ccedil", "Ouml", "Uuml", "acirc", "ccedil", "ouml", "uuml",
         "Gbreve", "gbreve", "Idot", "inodot", "Scedil", "scedil">>
RECURSIVE TextLess(_, _)
TextLess(a, b) ==
    IF b = <<>> THEN FALSE
    ELSE IF a = <<>> THEN TRUE
    ELSE IF a[1] = b[1] THEN TextLess(Tail(a), Tail(b))
    ELSE IndexOf(CodePointOrder, a[1]) < IndexOf(CodePointOrder, b[1])

\* the distinct grouping keys in ascending order
RECURSIVE SortedKeys(_)
SortedKeys(keys) ==
    IF keys = {} THEN <<>>
    ELSE LET least == CHOOSE k \in keys : \A other \in keys \ {k} : TextLess(k, other)
         IN  <<least>> \o SortedKeys(keys \ {least})

\* sum(safe_int(val) for val in x if pd.notna(val) and str(val).strip())
RECURSIVE SumCells(_)
SumCells(cells) ==
    IF cells = <<>> THEN 0
    ELSE (IF CellPresent(Head(cells)) THEN safe_int(Head(cells)) ELSE 0)
         + SumCells(Tail(cells))

\* the rows of data whose key is `key`, in order
RECURSIVE RowsOfKey(_, _, _)
RowsOfKey(hp, rows, key) ==
    IF rows = <<>> THEN <<>>
    ELSE (IF grouping_key(hp, Head(rows)) = key THEN <<Head(rows)>> ELSE <<>>)
         \o RowsOfKey(hp, Tail(rows), key)

\* _merge_duplicate_rows: one row per grouping key; a column whose name is
\* in numeric_columns holds the sum of its cells (written back as a numeral),
\* every other column the cell of the first row of the group
merge_duplicate_rows(hp, rows) ==
    IF player_idx(hp) = 0 THEN rows
    ELSE LET keys == SortedKeys({grouping_key(hp, rows[i]) : i \in DOMAIN rows})
             numeric == numeric_columns(hp)
             merged(key) ==
                 LET group == RowsOfKey(hp, rows, key)
                 IN  [c \in DOMAIN hp.original_headers |->
                        IF hp.original_headers[c] \in numeric
                        THEN IntToStr(SumCells([r \in DOMAIN group |-> group[r][c]]))
                        ELSE group[1][c]]
         IN  [k \in DOMAIN keys |-> merged(keys[k])]

\* a variant expansion that follows the cell value: count cards
expand_variant_ByCount(player, label, series, group, info, count) ==
    [i \in 1..count |->
        CardLine(build_variant_line(player, label, count, i, info.is_signed),
                 player, label, info.display_name, count, i,
                 info.is_signed, series, group)]

\* _expand_variant for a numeric denominator: denominator cards, numbered
\* 1..denominator, whatever the count
expand_variant(player, label, series, group, info, count) ==
    [i \in 1..info.denominator.n |->
        CardLine(build_variant_line(player, label, info.denominator.n, i, info.is_signed),
                 player, label, info.display_name, info.denominator.n, i,
                 info.is_signed, series, group)]

\* _expand_base
expand_base(player, label, series, group, base_count) ==
    [i \in 1..base_count |->
        CardLine(base_line(player, label), player, label, hBase, base_count, i,
                 FALSE, series, group)]

\* _expand_custom_label
expand_custom_label(player, label, series, group, custom_label, count) ==
    [i \in 1..count |->
        CardLine(player \o <<" ">> \o label \o <<" ">> \o custom_label,
                 player, label, custom_label, count, i,
                 Contains(custom_label, Imzali), series, group)]

\* the variant descriptors _expand_single_row visits, in its order: for each
\* pair its 'normal' then its 'signed' entry, None entries and entries
\* without column skipped
RECURSIVE VariantsToExpand(_, _)
VariantsToExpand(hp, pairs) ==
    IF pairs = <<>> THEN <<>>
    ELSE LET visit(info) ==
                 IF info # NoVariant
                    /\ get_column_index(hp.normalized_headers, info.column_name) # 0
                 THEN <<info>> ELSE <<>>
         IN  visit(Head(pairs).normal) \o visit(Head(pairs).signed)
             \o VariantsToExpand(hp, Tail(pairs))

\* the variant part of _expand_single_row from the descriptor list `todo`
\* on: the lines appended, and whether _expand_variant raised (range() on
\* a text denominator is a TypeError, before any line is appended)
RECURSIVE ExpandVariants(_, _, _, _, _, _, _)
ExpandVariants(hp, row, player, label, series, group, todo) ==
    IF todo = <<>> THEN [lines |-> <<>>, raised |-> FALSE]
    ELSE LET info == Head(todo)
             cell == row[get_column_index(hp.normalized_headers, info.column_name)]
             active == CellPresent(cell) /\ safe_int(cell) > 0
             rest == ExpandVariants(hp, row, player, label, series, group, Tail(todo))
         IN  IF ~active THEN rest
             ELSE IF ~info.denominator.numeric THEN [lines |-> <<>>, raised |-> TRUE]
             ELSE [lines |-> expand_variant(player, label, series, group, info,
                                            safe_int(cell)) \o rest.lines,
                   raised |-> rest.raised]

\* the custom label part of _expand_single_row
RECURSIVE ExpandCustomLabels(_, _, _, _, _, _, _)
ExpandCustomLabels(hp, row, player, label, series, group, labels) ==
    IF labels = <<>> THEN <<>>
    ELSE LET cell == row[get_column_index(hp.normalized_headers, Head(labels))]
         IN  (IF CellPresent(cell) /\ safe_int(cell) > 0
              THEN expand_custom_label(player, label, series, group, Head(labels),
                                       safe_int(cell))
              ELSE <<>>)
             \o ExpandCustomLabels(hp, row, player, label, series, group, Tail(labels))

\* _expand_single_row: the lines it appends to self.lines and whether it
\* raised; without player column `row_data.iloc[None]` raises at once
expand_single_row(hp, row) ==
    IF player_idx(hp) = 0 THEN [lines |-> <<>>, raised |-> TRUE]
    ELSE
    LET player == normalize_text(row[player_idx(hp)])
        series == IF series_idx(hp) # 0 THEN normalize_text(row[series_idx(hp)]) ELSE <<>>
        group == IF group_idx(hp) # 0 THEN normalize_text(row[group_idx(hp)]) ELSE <<>>
        label == IF group # <<>> THEN series \o <<" ">> \o group ELSE series
        variantPart == ExpandVariants(hp, row, player, label, series, group,
                           VariantsToExpand(hp, get_variant_pairs(hp.variants)))
        basePart == IF base_idx(hp) # 0 /\ CellPresent(row[base_idx(hp)])
                       /\ safe_int(row[base_idx(hp)]) > 0
                    THEN expand_base(player, label, series, group,
                                     safe_int(row[base_idx(hp)]))
                    ELSE <<>>
        customPart == ExpandCustomLabels(hp, row, player, label, series, group,
                                         hp.custom_labels)
    IN  IF player = <<>> THEN [lines |-> <<>>, raised |-> FALSE]
        ELSE IF variantPart.raised THEN variantPart
        ELSE [lines |-> variantPart.lines \o basePart \o customPart, raised |-> FALSE]

----------------------------------------------------------------------------
(***************************************************************************)
(* validate.py: ChecklistValidator                                         *)
(***************************************************************************)
Finding(kind, row, column, type) ==
    [kind |-> kind, row |-> row, column |-> column, type |-> type]

\* the indices of S in ascending order
RECURSIVE Ascending(_)
Ascending(S) ==
    IF S = {} THEN <<>>
    ELSE LET least == CHOOSE i \in S : \A j \in S : i <= j
         IN  <<least>> \o Ascending(S \ {least})

\* _validate_required_fields for the row at 0-based position row_num - 2
RequiredFieldFindings(hp, row, row_num) ==
    LET seriesEmpty == series_idx(hp) # 0 /\ normalize_text(row[series_idx(hp)]) = <<>>
        groupEmpty == group_idx(hp) = 0 \/ normalize_text(row[group_idx(hp)]) = <<>>
        playerEmpty == player_idx(hp) # 0 /\ normalize_text(row[player_idx(hp)]) = <<>>
    IN  (IF seriesEmpty /\ groupEmpty
         THEN <<Finding("error", row_num, hSeriAdi, "Required Field")>> ELSE <<>>)
        \o (IF playerEmpty
            THEN <<Finding("error", row_num, hOyuncuAdi, "Required Field")>> ELSE <<>>)

\* the checks of _validate_numeric_values on one variant cell; comparing
\* the value with a text denominator is a TypeError (kind "raise")
VariantCellFindings(info, cell, row_num) ==
    IF ~CellPresent(cell) THEN <<>>
    ELSE IF ~is_numeric_value(cell)
    THEN <<Finding("error", row_num, info.column_name, "Invalid Value")>>
    ELSE IF safe_int(cell) < 0
    THEN <<Finding("error", row_num, info.column_name, "Negative Value")>>
    ELSE IF ~info.denominator.numeric
    THEN <<Finding("raise", row_num, info.column_name, "TypeError")>>
    ELSE IF safe_int(cell) > info.denominator.n
    THEN <<Finding("warning", row_num, info.column_name, "Value Exceeds Denominator")>>
    ELSE IF safe_int(cell) < info.denominator.n /\ safe_int(cell) > 0
    THEN <<Finding("warning", row_num, info.column_name, "Value Less Than Denominator")>>
    ELSE <<>>

RECURSIVE VariantFindings(_, _, _, _)
VariantFindings(hp, row, row_num, todo) ==
    IF todo = <<>> THEN <<>>
    ELSE VariantCellFindings(Head(todo),
             row[get_column_index(hp.normalized_headers, Head(todo).column_name)],
             row_num)
         \o VariantFindings(hp, row, row_num, Tail(todo))

\* the checks of _validate_numeric_values on the Base cell
BaseCellFindings(hp, row, row_num) ==
    IF base_idx(hp) = 0 \/ ~CellPresent(row[base_idx(hp)]) THEN <<>>
    ELSE IF ~is_numeric_value(row[base_idx(hp)])
    THEN <<Finding("error", row_num, hBase, "Invalid Value")>>
    ELSE IF safe_int(row[base_idx(hp)]) < 0
    THEN <<Finding("error", row_num, hBase, "Negative Value")>>
    ELSE <<>>

\* _validate_base_column
LargeBase == 999
LargeBaseFindings(hp, row, row_num) ==
    IF base_idx(hp) # 0 /\ CellPresent(row[base_idx(hp)])
       /\ safe_int(row[base_idx(hp)]) > LargeBase
    THEN <<Finding("warning", row_num, hBase, "Large Base Value")>>
    ELSE <<>>

\* _detect_duplicate_rows: per variant column, one warning per (player,
\* group) key filled with a positive value on more than one row
DuplicateKey(hp, row) ==
    <<normalize_text(row[player_idx(hp)]),
      IF group_idx(hp) # 0 THEN normalize_text(row[group_idx(hp)])
      ELSE IF series_idx(hp) # 0 THEN normalize_text(row[series_idx(hp)])
      ELSE <<>>>>

RECURSIVE DuplicateRowFindings(_, _, _)
DuplicateRowFindings(hp, rows, todo) ==
    IF todo = <<>> \/ player_idx(hp) = 0 THEN <<>>
    ELSE LET info == Head(todo)
             col == get_column_index(hp.normalized_headers, info.column_name)
             filled == {i \in DOMAIN rows :
                          /\ normalize_text(rows[i][player_idx(hp)]) # <<>>
                          /\ CellPresent(rows[i][col])
                          /\ safe_int(rows[i][col]) > 0}
             firsts == {i \in filled :
                          /\ \A j \in filled : j < i =>
                                DuplicateKey(hp, rows[j]) # DuplicateKey(hp, rows[i])
                          /\ \E j \in filled : j > i /\
                                DuplicateKey(hp, rows[j]) = DuplicateKey(hp, rows[i])}
             order == Ascending(firsts)
         IN  [k \in DOMAIN order |->
                 Finding("warning", order[k] + 1, info.column_name, "Duplicate Rows")]
             \o DuplicateRowFindings(hp, rows, Tail(todo))

NumericFindings(hp, row, row_num) ==
    VariantFindings(hp, row, row_num,
                    VariantsToExpand(hp, get_variant_pairs(hp.variants)))
    \o BaseCellFindings(hp, row, row_num)

\* the loop `for row_idx in range(len(self.data))` of one check, from the
\* row at position idx on
RECURSIVE PerRow(_, _, _, _)
PerRow(check, hp, rows, idx) ==
    IF idx > Len(rows) THEN <<>>
    ELSE (CASE check = "required" -> RequiredFieldFindings(hp, rows[idx], idx + 1)
            [] check = "numeric" -> NumericFindings(hp, rows[idx], idx + 1)
            [] check = "base" -> LargeBaseFindings(hp, rows[idx], idx + 1))
         \o PerRow(check, hp, rows, idx + 1)

RECURSIVE Untagged(_)
Untagged(findings) ==
    IF findings = <<>> THEN <<>>
    ELSE <<[row |-> Head(findings).row, column |-> Head(findings).column,
            type |-> Head(findings).type]>> \o Untagged(Tail(findings))

OfKind(findings, kind) == Untagged(SelectSeq(findings, LAMBDA f : f.kind = kind))

\* validate_all: raised when a check raised, else the errors, the warnings
\* and is_valid (every error is blocking)
validate_checklist(rows, hp) ==
    LET findings == PerRow("required", hp, rows, 1)
                    \o PerRow("numeric", hp, rows, 1)
                    \o PerRow("base", hp, rows, 1)
                    \o DuplicateRowFindings(hp, rows,
                           VariantsToExpand(hp, get_variant_pairs(hp.variants)))
        found == hp.errors \o OfKind(findings, "error")
    IN  [raised |-> \E i \in DOMAIN findings : findings[i].kind = "raise",
         errors |-> found,
         warnings |-> hp.warnings \o OfKind(findings, "warning"),
         is_valid |-> found = <<>>]

----------------------------------------------------------------------------
(***************************************************************************)
(* Checklists: header rows and the data rows that can stand under them     *)
(***************************************************************************)
MaxRows == 2

tAli == <<"A", "l", "i">>
tCan == <<"C", "a", "n">>
tDuo == <<"D", "u", "o">>
SeriesLegends == <<"L", "e", "g", "e", "n", "d", "s">>
hSlash5 == <<"/", "5">>
hSlash5Signed == <<"/", "5", " ">> \o Imzali
hSlash5SignedTight == <<"/", "5">> \o Imzali
hSlash1 == <<"/", "1">>
hSlash05 == <<"/", "0", "5">>
hLowerBase == <<"b", "a", "s", "e">>
hShortPrint == <<"S", "h", "o", "r", "t", " ", "P", "r", "i", "n", "t">>
hGoldFoil == <<"G", "o", "l", "d", "-", "F", "o", "i", "l">>

\* a numbered pair and Base
HeadersPair == <<hSeriAdi, hOyuncuAdi, hSlash5, hSlash5Signed, hBase>>
RowsPair ==
    { <<SeriesMythos, tAli, <<"2">>, <<>>, <<"1">>>>,
      <<SeriesMythos, tAli, <<"3">>, <<"5">>, <<"2">>>>,
      <<SeriesMythos, tCan, <<"0">>, <<>>, <<"0">>>>,
      <<SeriesMythos, <<>>, <<"5">>, <<>>, <<"1">>>>,
      <<SeriesLegends, tAli, <<>>, <<"1">>, <<>>>>,
      <<SeriesMythos, tCan, <<"x">>, <<"-", "1">>, <<"2">>>> }

\* two unsigned columns of denominator 1
HeadersOneTwice == <<hSeriAdi, hOyuncuAdi, hOneOfOne, hSlash1, hBase>>
RowsOneTwice ==
    { <<SeriesMythos, tAli, <<"1">>, <<"1">>, <<"1">>>>,
      <<SeriesMythos, tAli, <<"1">>, <<>>, <<>>>>,
      <<SeriesMythos, tCan, <<>>, <<"1">>, <<"2">>>> }

\* a numbered column, a named variant and Base
HeadersNamed == <<hSeriAdi, hOyuncuAdi, hSlash5, hShortPrint, hBase>>
RowsNamed ==
    { <<SeriesMythos, tAli, <<"5">>, <<"2">>, <<"1">>>>,
      <<SeriesMythos, tAli, <<>>, <<"2">>, <<"3">>>>,
      <<SeriesMythos, tCan, <<"5">>, <<>>, <<"1">>>>,
      <<SeriesMythos, tCan, <<>>, <<"x">>, <<"1">>>> }

\* a group column, a custom label and Base
HeadersCustom == <<hSeriAdi, hGrupOpsiyonel, hOyuncuAdi, hGoldFoil, hBase>>
RowsCustom ==
    { <<SeriesMythos, <<>>, tAli, <<"2">>, <<"1">>>>,
      <<SeriesMythos, tDuo, tAli, <<"1">>, <<"0">>>>,
      <<SeriesLegends, tDuo, tAli, <<"3">>, <<"2">>>>,
      <<<<>>, <<>>, tCan, <<>>, <<>>>> }

\* a signed column written without the blank
HeadersTight == <<hSeriAdi, hOyuncuAdi, hSlash5SignedTight, hBase>>
RowsTight ==
    { <<SeriesMythos, tAli, <<"0">>, <<"1">>>>,
      <<SeriesMythos, tAli, <<"3">>, <<"2">>>>,
      <<SeriesMythos, tCan, <<"5">>, <<>>>> }

\* no series column
HeadersNoSeries == <<hOyuncuAdi, hSlash5, hBase>>
RowsNoSeries ==
    { <<tAli, <<"5">>, <<"1">>>>,
      <<tCan, <<>>, <<"2">>>> }

\* no player column
HeadersNoPlayer == <<hSeriAdi, hSlash5, hBase>>
RowsNoPlayer ==
    { <<SeriesMythos, <<"5">>, <<"1">>>>,
      <<SeriesMythos, <<>>, <<>>>> }

\* both pairs of the standard sheet
HeadersFull == <<hSeriAdi, hOyuncuAdi, hOneOfOne, hOneOfOne \o <<" ">> \o Imzali,
                 hSlash5, hSlash5Signed, hBase>>
RowsFull ==
    { <<SeriesMythos, tAli, <<"1">>, <<>>, <<"2">>, <<"0">>, <<"1">>>>,
      <<SeriesMythos, tCan, <<>>, <<"1">>, <<>>, <<"5">>, <<>>>> }

\* three columns of denominator 5 and two unsigned ones of denominator 1
HeadersTriple == <<hSeriAdi, hOyuncuAdi, hSlash5, hSlash5Signed, hSlash05,
                   hOneOfOne, hSlash1, hBase>>
RowsTriple ==
    { <<SeriesMythos, tAli, <<"5">>, <<>>, <<"5">>, <<"1">>, <<>>, <<"1">>>>,
      <<SeriesMythos, tCan, <<>>, <<"5">>, <<>>, <<>>, <<"1">>, <<>>>> }

\* the Base column written in lower case
HeadersLowerBase == <<hSeriAdi, hOyuncuAdi, hSlash5, hLowerBase>>
RowsLowerBase ==
    { <<SeriesMythos, tAli, <<"5">>, <<"2">>>>,
      <<SeriesMythos, tCan, <<>>, <<"1">>>> }

\* a numbered column of 4301 digits after the Base column
hSlashHuge == <<"/", NinesRun>>
HeadersHuge == <<hSeriAdi, hOyuncuAdi, hBase, hSlashHuge>>
RowsHuge ==
    { <<SeriesMythos, tAli, <<"1">>, <<"2">>>>,
      <<SeriesMythos, tCan, <<"2">>, <<>>>> }

Frames(headers, rowPool) ==
    { [headers |-> headers, rows |-> rows] :
        rows \in UNION { [1..k -> rowPool] : k \in 1..MaxRows } }

Checklists ==
    Frames(HeadersPair, RowsPair) \cup Frames(HeadersOneTwice, RowsOneTwice)
    \cup Frames(HeadersNamed, RowsNamed) \cup Frames(HeadersCustom, RowsCustom)
    \cup Frames(HeadersTight, RowsTight) \cup Frames(HeadersNoSeries, RowsNoSeries)
    \cup Frames(HeadersNoPlayer, RowsNoPlayer)
    \cup Frames(HeadersFull, RowsFull) \cup Frames(HeadersTriple, RowsTriple)
    \cup Frames(HeadersLowerBase, RowsLowerBase)
    \cup Frames(HeadersHuge, RowsHuge)

----------------------------------------------------------------------------
(***************************************************************************)
(* One checklist run                                                       *)
(***************************************************************************)
tAll == <<"A", "l", "l">>

InitExpand ==
    /\ pc = "checklist"
    /\ MatchIdle
    /\ ExpandIdle
    /\ TextIdle
    /\ ShortenIdle

\* read_checklist_excel, by process_checklist (called by list_command with
\* its --dry-run option, or directly) or by a caller that hands the frame
\* and its HeaderProcessor to expand_checklist_rows
ReadChecklist ==
    /\ pc = "checklist"
    /\ \E frame \in Checklists : data' = frame
    /\ \E e \in {"list_command", "process_checklist", "expand_checklist_rows"} :
          /\ entry' = e
          /\ dry_run' \in (IF e = "expand_checklist_rows" THEN {FALSE} ELSE BOOLEAN)
    /\ pc' = "headers"
    /\ UNCHANGED <<header_processor, validation_result, merged_data, row_idx,
                   lines, errors, result_errors, row_results, confirmation,
                   summary, matchVars, otherVars>>

\* normalize_headers(list(data.columns))
NormalizeHeaders ==
    /\ pc = "headers"
    /\ header_processor' = HeaderProcessor(data.headers)
    /\ IF entry # "expand_checklist_rows"
       THEN /\ result_errors' = header_processor'.errors
            /\ pc' = "validate"
       ELSE /\ result_errors' = result_errors
            /\ pc' = "merge"
    /\ UNCHANGED <<data, entry, dry_run, validation_result, merged_data, row_idx,
                   lines, errors, row_results, confirmation, summary, matchVars, otherVars>>

\* `if not validation_result.is_valid and dry_run`
StopsAfterValidation(v, dry) == ~v.is_valid /\ dry

\* step 3 and 4 of process_checklist: validate_checklist; an exception ends
\* the run with a Processing Error, blocking errors end a dry run
ValidateChecklist ==
    /\ pc = "validate"
    /\ LET v == validate_checklist(data.rows, header_processor)
       IN  IF v.raised
           THEN /\ validation_result' = validation_result
                /\ result_errors' = Append(result_errors, [type |-> "Processing Error"])
                /\ pc' = "aborted"
           ELSE /\ validation_result' = v
                /\ result_errors' = result_errors \o v.errors
                /\ pc' = IF StopsAfterValidation(v, dry_run) THEN "stopped" ELSE "merge"
    /\ UNCHANGED <<data, entry, dry_run, header_processor, merged_data, row_idx,
                   lines, errors, row_results, confirmation, summary, matchVars, otherVars>>

\* expand_all_rows: merged_data = self._merge_duplicate_rows()
MergeDuplicateRows ==
    /\ pc = "merge"
    /\ merged_data' = merge_duplicate_rows(header_processor, data.rows)
    /\ row_idx' = 0
    /\ pc' = "expand"
    /\ UNCHANGED <<data, entry, dry_run, header_processor, validation_result,
                   lines, errors, result_errors, row_results, confirmation,
                   summary, matchVars, otherVars>>

\* one iteration of the loop of expand_all_rows
ExpandSingleRow ==
    /\ pc = "expand"
    /\ row_idx < Len(merged_data)
    /\ LET result == expand_single_row(header_processor, merged_data[row_idx + 1])
       IN  /\ lines' = lines \o result.lines
           /\ errors' = IF result.raised
                        THEN Append(errors, [row |-> row_idx + 2, column |-> tAll,
                                             type |-> "Expansion Error"])
                        ELSE errors
           /\ row_results' = Append(row_results, result)
    /\ row_idx' = row_idx + 1
    /\ UNCHANGED <<pc, data, entry, dry_run, header_processor, validation_result,
                   merged_data, result_errors, confirmation, summary, matchVars, otherVars>>

\* the sum of line.number over the lines at the positions ks
RECURSIVE SumOfNumbers(_, _)
SumOfNumbers(card_lines, ks) ==
    IF ks = {} THEN 0
    ELSE LET k == CHOOSE x \in ks : TRUE
         IN  card_lines[k].number + SumOfNumbers(card_lines, ks \ {k})

tUnknown == <<"U", "n", "k", "n", "o", "w", "n">>

\* `line.series if line.series else "Unknown"`
SeriesKey(line) == IF line.series = <<>> THEN tUnknown ELSE line.series

\* _generate_expansion_summary
generate_expansion_summary(card_lines, errs) ==
    LET pos == DOMAIN card_lines
        base == {k \in pos : card_lines[k].variant_type = hBase}
        other == pos \ base
    IN  [total_cards |-> Len(card_lines),
         unique_players |-> {card_lines[k].player : k \in pos},
         total_players |-> Cardinality({card_lines[k].player : k \in pos}),
         variants |->
            [vt \in {card_lines[k].variant_type : k \in other} |->
                [normal |-> Cardinality({k \in other :
                                /\ card_lines[k].variant_type = vt
                                /\ ~card_lines[k].is_signed}),
                 signed |-> Cardinality({k \in other :
                                /\ card_lines[k].variant_type = vt
                                /\ card_lines[k].is_signed})]],
         base_summary |->
            [p \in {card_lines[k].player : k \in base} |->
                SumOfNumbers(card_lines, {k \in base : card_lines[k].player = p})],
         series_summary |->
            [sr \in {SeriesKey(card_lines[k]) : k \in pos} |->
                Cardinality({k \in pos : SeriesKey(card_lines[k]) = sr})],
         total_errors |-> Len(errs)]

\* the loop of expand_all_rows ends and the summary is generated;
\* process_checklist takes the errors over
ExpandAllDone ==
    /\ pc = "expand"
    /\ row_idx = Len(merged_data)
    /\ pc' = "expanded"
    /\ result_errors' =
          IF entry # "expand_checklist_rows"
          THEN result_errors \o errors
          ELSE result_errors
    /\ summary' = generate_expansion_summary(lines, errors)
    /\ UNCHANGED <<data, entry, dry_run, header_processor, validation_result,
                   merged_data, row_idx, lines, errors, row_results, confirmation,
                   matchVars, otherVars>>

\* export.py: validate_export_requirements
validate_export_requirements(card_lines) ==
    IF card_lines = <<>> THEN <<"no lines">>
    ELSE (IF \E k \in DOMAIN card_lines : normalize_text(card_lines[k].player) = <<>>
          THEN <<"player missing">> ELSE <<>>)
         \o (IF \E k \in DOMAIN card_lines : normalize_text(card_lines[k].label) = <<>>
             THEN <<"label missing">> ELSE <<>>)
         \o (IF \E k \in DOMAIN card_lines : card_lines[k].denominator <= 0
             THEN <<"invalid denominator">> ELSE <<>>)

\* the issues as entries of result['errors']
RECURSIVE ExportValidationErrors(_)
ExportValidationErrors(issues) ==
    IF issues = <<>> THEN <<>>
    ELSE <<[type |-> "Export Validation", message |-> Head(issues)]>>
         \o ExportValidationErrors(Tail(issues))

\* steps 5 to 7 of process_checklist after the expansion: a run without
\* line or with export issues returns its errors, else export_card_lines
\* is called
ExportCardLines ==
    /\ pc = "expanded"
    /\ entry # "expand_checklist_rows"
    /\ IF lines = <<>>
       THEN /\ result_errors' = Append(result_errors, [type |-> "No Output"])
            /\ pc' = "no_output"
       ELSE IF validate_export_requirements(lines) # <<>>
       THEN /\ result_errors' = result_errors
                    \o ExportValidationErrors(validate_export_requirements(lines))
            /\ pc' = "export_refused"
       ELSE /\ result_errors' = result_errors
            /\ pc' = "exported"
    /\ UNCHANGED <<data, entry, dry_run, header_processor, validation_result,
                   merged_data, row_idx, lines, errors, row_results, confirmation,
                   summary, matchVars, otherVars>>

\* list_command after a dry run that stopped on blocking errors:
\* click.confirm; on yes process_checklist runs again with dry_run=False,
\* on no the command exits
AskConfirmation ==
    /\ pc = "stopped"
    /\ entry = "list_command"
    /\ confirmation = "none"
    /\ \E answer \in BOOLEAN :
          IF answer
          THEN /\ confirmation' = "given"
               /\ dry_run' = FALSE
               /\ header_processor' = None
               /\ validation_result' = None
               /\ result_errors' = <<>>
               /\ pc' = "headers"
          ELSE /\ confirmation' = "declined"
               /\ pc' = "cancelled"
               /\ UNCHANGED <<dry_run, header_processor, validation_result,
                              result_errors>>
    /\ UNCHANGED <<data, entry, merged_data, row_idx, lines, errors, row_results,
                   summary, matchVars, otherVars>>

NextExpand ==
    \/ ReadChecklist
    \/ NormalizeHeaders
    \/ ValidateChecklist
    \/ MergeDuplicateRows
    \/ ExpandSingleRow
    \/ ExpandAllDone
    \/ ExportCardLines
    \/ AskConfirmation

SpecExpand == InitExpand /\ [][NextExpand]_vars

----------------------------------------------------------------------------
(***************************************************************************)
(* Properties of the expansion                                             *)
(***************************************************************************)
\* the merged rows _expand_single_row does not skip: there is a player
\* column and the row names a player
RowsWithPlayer ==
    IF player_idx(header_processor) = 0 THEN {}
    ELSE {r \in DOMAIN merged_data :
             normalize_text(merged_data[r][player_idx(header_processor)]) # <<>>}

\* the cell of merged row r under the column named column_name
MergedCell(r, column_name) ==
    merged_data[r][get_column_index(header_processor.normalized_headers, column_name)]

CellPositive(cell) == CellPresent(cell) /\ safe_int(cell) > 0

\* the records merged row r produced with the given variant type and flag
RecordsOf(r, variant_type, is_signed) ==
    SelectSeq(row_results[r].lines,
              LAMBDA l : l.variant_type = variant_type /\ l.is_signed = is_signed)

\* the records merged row r produced with the given variant type
RecordsOfType(r, variant_type) ==
    SelectSeq(row_results[r].lines, LAMBDA l : l.variant_type = variant_type)

\* ls is numbered 1..k
NumberedTo(ls, k) == Len(ls) = k /\ \A i \in DOMAIN ls : ls[i].number = i

NumericDescriptors ==
    {i \in DOMAIN header_processor.variants :
        header_processor.variants[i].denominator.numeric}

NamedDescriptors ==
    {i \in DOMAIN header_processor.variants :
        ~header_processor.variants[i].denominator.numeric}

\* C7: once the rows are expanded, every merged row with a player has, for
\* EVERY variant descriptor with a numeric denominator d whose cell is
\* positive, exactly d records numbered 1..d with denominator d, the
\* descriptor's display name and its signed flag.
C7_EveryNumericColumnExpanded ==
    pc = "expanded" =>
        \A r \in RowsWithPlayer : \A i \in NumericDescriptors :
            LET info == header_processor.variants[i]
                ls == RecordsOf(r, info.display_name, info.is_signed)
            IN  CellPositive(MergedCell(r, info.column_name)) =>
                    /\ NumberedTo(ls, info.denominator.n)
                    /\ \A k \in DOMAIN ls : ls[k].denominator = info.denominator.n

\* C7, the failing case: two columns describe the same denominator with the
\* same signed flag, the row fills both, and the earlier column has no record
C7_ColumnLeftUnexpanded ==
    /\ pc = "expanded"
    /\ \E r \in RowsWithPlayer : \E i, j \in NumericDescriptors :
          LET first == header_processor.variants[i]
              second == header_processor.variants[j]
          IN  /\ i < j
              /\ first.denominator = second.denominator
              /\ first.is_signed = second.is_signed
              /\ CellPositive(MergedCell(r, first.column_name))
              /\ CellPositive(MergedCell(r, second.column_name))
              /\ ~row_results[r].raised
              /\ RecordsOf(r, first.display_name, first.is_signed) = <<>>
              /\ NumberedTo(RecordsOf(r, second.display_name, second.is_signed),
                            second.denominator.n)

\* C8: once the rows are expanded, every merged row with a player has, for
\* every named variant (text denominator) whose cell holds n > 0, exactly n
\* records numbered 1..n, and its expansion did not raise.
C8_NamedVariantExpandsByCount ==
    pc = "expanded" =>
        \A r \in RowsWithPlayer : \A i \in NamedDescriptors :
            LET info == header_processor.variants[i]
                cell == MergedCell(r, info.column_name)
            IN  CellPositive(cell) =>
                    /\ ~row_results[r].raised
                    /\ NumberedTo(RecordsOf(r, info.display_name, info.is_signed),
                                  safe_int(cell))

\* C8, the failing case: the row fills a named variant, its expansion
\* raised, the row is reported as an Expansion Error and has no record of
\* the named variant
C8_NamedVariantRaises ==
    /\ pc = "expanded"
    /\ \E r \in RowsWithPlayer : \E i \in NamedDescriptors :
          LET info == header_processor.variants[i]
          IN  /\ CellPositive(MergedCell(r, info.column_name))
              /\ row_results[r].raised
              /\ RecordsOf(r, info.display_name, info.is_signed) = <<>>
              /\ \E e \in DOMAIN errors :
                    errors[e].row = r + 1 /\ errors[e].type = "Expansion Error"

\* the Base column and the custom label columns
BaseStyleColumns ==
    (IF base_idx(header_processor) # 0 THEN {hBase} ELSE {})
    \cup Range(header_processor.custom_labels)

\* C9: once the rows are expanded, every merged row with a player has, for
\* the Base column and each custom label column, exactly n records numbered
\* 1..n with denominator n and the column's name as variant type when the
\* cell holds n > 0, and no record of that type when it is empty or 0.
C9_BaseStyleGeneration ==
    pc = "expanded" =>
        \A r \in RowsWithPlayer : \A column \in BaseStyleColumns :
            LET cell == MergedCell(r, column)
                ls == RecordsOfType(r, column)
            IN  IF CellPositive(cell)
                THEN /\ NumberedTo(ls, safe_int(cell))
                     /\ \A k \in DOMAIN ls : ls[k].denominator = safe_int(cell)
                ELSE ls = <<>>

\* C9, the failing case: the row's Base cell is positive and it has no Base
\* record, because a named variant filled on the row raised first
C9_BaseLostToNamedVariant ==
    /\ pc = "expanded"
    /\ \E r \in RowsWithPlayer :
          /\ base_idx(header_processor) # 0
          /\ CellPositive(MergedCell(r, hBase))
          /\ RecordsOfType(r, hBase) = <<>>
          /\ row_results[r].raised
          /\ \E i \in NamedDescriptors :
                CellPositive(MergedCell(r, header_processor.variants[i].column_name))

\* the rows of the frame with the grouping key of merged row m
GroupOf(m) ==
    RowsOfKey(header_processor, data.rows,
              grouping_key(header_processor, merged_data[m]))

\* the columns holding a variant or Base
SummedColumns ==
    {c \in DOMAIN header_processor.normalized_headers :
        \/ header_processor.normalized_headers[c] = hBase
        \/ \E i \in DOMAIN header_processor.variants :
              header_processor.variants[i].column_name
                  = header_processor.normalized_headers[c]}

\* C10: when the frame has a player column, the merged frame has one row
\* per (player, label) key of the frame; in it every variant cell and the
\* Base cell is the sum over the rows of the key and every other cell is
\* the cell of the key's first row.
C10_MergedRowSumsGroup ==
    (pc \in {"expand", "expanded"} /\ player_idx(header_processor) # 0) =>
        /\ \A m, n \in DOMAIN merged_data :
              grouping_key(header_processor, merged_data[m])
                  = grouping_key(header_processor, merged_data[n]) => m = n
        /\ {grouping_key(header_processor, merged_data[m]) : m \in DOMAIN merged_data}
              = {grouping_key(header_processor, data.rows[i]) : i \in DOMAIN data.rows}
        /\ \A m \in DOMAIN merged_data : \A c \in DOMAIN data.headers :
              LET group == GroupOf(m)
              IN  IF c \in SummedColumns
                  THEN safe_int(merged_data[m][c])
                           = SumCells([k \in DOMAIN group |-> group[k][c]])
                  ELSE merged_data[m][c] = group[1][c]

\* C10, the failing case: two rows of one key, a variant column whose header
\* is not written in its normalized form, and the merged cell is the first
\* row's cell, not the sum
C10_VariantCellNotSummed ==
    /\ pc \in {"expand", "expanded"}
    /\ player_idx(header_processor) # 0
    /\ \E m \in DOMAIN merged_data : \E c \in SummedColumns :
          LET group == GroupOf(m)
          IN  /\ Len(group) = 2
              /\ data.headers[c] # header_processor.normalized_headers[c]
              /\ safe_int(merged_data[m][c])
                     # SumCells([k \in DOMAIN group |-> group[k][c]])
              /\ merged_data[m][c] = group[1][c]

\* the columns holding a custom label
CustomLabelColumns ==
    {c \in DOMAIN header_processor.normalized_headers :
        header_processor.normalized_headers[c] \in Range(header_processor.custom_labels)}

\* C11: when the frame has a player column, every custom label cell of a
\* merged row is the sum of the cells of the rows of its key, as the variant
\* and Base cells are; it is not the first row's cell.
C11_CustomLabelCellsSummed ==
    (pc \in {"expand", "expanded"} /\ player_idx(header_processor) # 0) =>
        \A m \in DOMAIN merged_data : \A c \in CustomLabelColumns :
            LET group == GroupOf(m)
            IN  safe_int(merged_data[m][c])
                    = SumCells([k \in DOMAIN group |-> group[k][c]])

\* C11, the failing case: two rows of one key fill a custom label column
\* and the merged cell is the first row's cell, less than the sum
C11_CustomLabelTakesFirst ==
    /\ pc \in {"expand", "expanded"}
    /\ player_idx(header_processor) # 0
    /\ \E m \in DOMAIN merged_data : \E c \in CustomLabelColumns :
          LET group == GroupOf(m)
          IN  /\ Len(group) = 2
              /\ CellPositive(group[1][c])
              /\ CellPositive(group[2][c])
              /\ merged_data[m][c] = group[1][c]
              /\ safe_int(merged_data[m][c])
                     < SumCells([k \in DOMAIN group |-> group[k][c]])

\* the (variant type, signed flag) pairs among the records of merged row r
RecordKinds(r) ==
    {<<row_results[r].lines[k].variant_type, row_results[r].lines[k].is_signed>> :
        k \in DOMAIN row_results[r].lines}

\* C12: every produced record has 1 <= number <= denominator; the records
\* one merged row produced for one column are numbered 1..k without gap or
\* repeat; and a record of a variant column carries the denominator of the
\* column's descriptor, not the cell value.
C12_NumberWithinDenominator ==
    /\ \A k \in DOMAIN lines :
          1 <= lines[k].number /\ lines[k].number <= lines[k].denominator
    /\ \A r \in DOMAIN row_results :
          /\ \A kind \in RecordKinds(r) :
                LET ls == RecordsOf(r, kind[1], kind[2])
                IN  \A k \in DOMAIN ls : ls[k].number = k
          /\ \A i \in DOMAIN header_processor.variants :
                LET info == header_processor.variants[i]
                    ls == RecordsOf(r, info.display_name, info.is_signed)
                IN  \A k \in DOMAIN ls :
                       /\ info.denominator.numeric
                       /\ ls[k].denominator = info.denominator.n

\* C12, the case: a merged row whose "/5" cell holds 2 produced five "/5"
\* records of denominator 5, and Base records as well
C12_Witness ==
    /\ pc = "expanded"
    /\ \E r \in RowsWithPlayer :
          /\ get_column_index(header_processor.normalized_headers, hSlash5) # 0
          /\ safe_int(MergedCell(r, hSlash5)) = 2
          /\ Len(RecordsOf(r, hSlash5, FALSE)) = 5
          /\ RecordsOf(r, hSlash5, FALSE)[5].number = 5
          /\ RecordsOf(r, hSlash5, FALSE)[5].denominator = 5
          /\ RecordsOfType(r, hBase) # <<>>

----------------------------------------------------------------------------
(***************************************************************************)
(* Properties of the header classification                                 *)
(***************************************************************************)
Classified == pc \notin {"scan", "checklist", "headers"}

\* C13: once the headers are classified, the series, player and Base
\* headers have no variant descriptor, and the headers [Seri Adi, Oyuncu
\* Adi, 1/1, 1/1 Imzali, /5, /5 Imzali, Base] have exactly four descriptors,
\* denominator 1 unsigned and signed and denominator 5 unsigned and signed,
\* and no error.
C13_StandardHeadersClassified ==
    Classified =>
        /\ \A i \in DOMAIN header_processor.variants :
              header_processor.variants[i].column_name
                  \notin {hSeriAdi, hOyuncuAdi, hBase}
        /\ data.headers = HeadersFull =>
              /\ header_processor.variants =
                    << VariantInfo(hOneOfOne, IntDenom(1), FALSE, hOneOfOne),
                       VariantInfo(hOneOfOne \o <<" ">> \o Imzali, IntDenom(1), TRUE,
                                   hOneOfOne \o <<" ">> \o Imzali),
                       VariantInfo(hSlash5, IntDenom(5), FALSE, hSlash5),
                       VariantInfo(hSlash5Signed, IntDenom(5), TRUE, hSlash5Signed) >>
              /\ header_processor.errors = <<>>

\* C13, the case: the standard headers have been classified and expanded
C13_Witness ==
    /\ pc = "expanded"
    /\ data.headers = HeadersFull
    /\ Len(header_processor.variants) = 4
    /\ header_processor.errors = <<>>
    /\ lines # <<>>

\* the denominators of the classified variants
ClassifiedDenominators ==
    {header_processor.variants[i].denominator : i \in DOMAIN header_processor.variants}

\* f"/{denom}", the column a duplicate finding names
DenominatorColumn(denom) ==
    <<"/">> \o (IF denom.numeric THEN NatToStr(denom.n) ELSE denom.text)

\* the number of findings of a type about a denominator in a list
FindingsAbout(findings, denom, type) ==
    Cardinality({k \in DOMAIN findings :
                    /\ findings[k].type = type
                    /\ findings[k].column = DenominatorColumn(denom)})

\* C14: once the headers are classified, for every denominator: more than
\* two descriptors give one Duplicate Variant error; exactly two of the same
\* polarity give one Variant Pair warning and no error; two of opposite
\* polarity, or a single descriptor, give neither.
C14_DuplicateVariantFindings ==
    Classified =>
        \A denom \in ClassifiedDenominators :
            LET same == VariantsOfDenominator(header_processor.variants, denom)
                signed == {i \in same : header_processor.variants[i].is_signed}
                errs == FindingsAbout(header_processor.errors, denom, "Duplicate Variant")
                warns == FindingsAbout(header_processor.warnings, denom, "Variant Pair")
            IN  IF Cardinality(same) > 2 THEN errs = 1
                ELSE IF Cardinality(same) = 2 /\ Cardinality(signed) \in {0, 2}
                THEN warns = 1 /\ errs = 0
                ELSE warns = 0 /\ errs = 0

\* C14, the case: three descriptors of denominator 5 gave the error and two
\* unsigned descriptors of denominator 1 gave the warning
C14_Witness ==
    /\ Classified
    /\ Cardinality(VariantsOfDenominator(header_processor.variants, IntDenom(5))) = 3
    /\ FindingsAbout(header_processor.errors, IntDenom(5), "Duplicate Variant") = 1
    /\ Cardinality(VariantsOfDenominator(header_processor.variants, IntDenom(1))) = 2
    /\ FindingsAbout(header_processor.warnings, IntDenom(1), "Variant Pair") = 1
    /\ FindingsAbout(header_processor.errors, IntDenom(1), "Duplicate Variant") = 0

\* C15: once the headers are classified, a column is a custom label exactly
\* when it is neither a variant column nor a reserved name compared without
\* regard to letter case; a reserved name in any letter case is neither a
\* variant nor a custom label.
C15_CustomLabelIffNotReserved ==
    Classified =>
        \A c \in DOMAIN header_processor.normalized_headers :
            LET h == header_processor.normalized_headers[c]
                variant == \E i \in DOMAIN header_processor.variants :
                               header_processor.variants[i].column_name = h
                reserved == Lower(h) \in RESERVED_COLUMN_NAMES
                custom == h \in Range(header_processor.custom_labels)
            IN  /\ custom <=> (~variant /\ ~reserved)
                /\ reserved => (~variant /\ ~custom)

\* C15, the failing case: the header "base" is reserved, is no variant, is a
\* custom label, and the rows were expanded with records of type "base"
C15_LowerBaseIsCustomLabel ==
    /\ pc = "expanded"
    /\ Lower(hLowerBase) \in RESERVED_COLUMN_NAMES
    /\ hLowerBase \in Range(header_processor.normalized_headers)
    /\ \A i \in DOMAIN header_processor.variants :
          header_processor.variants[i].column_name # hLowerBase
    /\ hLowerBase \in Range(header_processor.custom_labels)
    /\ \E k \in DOMAIN lines : lines[k].variant_type = hLowerBase

----------------------------------------------------------------------------
(***************************************************************************)
(* Properties of the error handling                                        *)
(***************************************************************************)
\* the records of the rows that did not raise, in row order
RECURSIVE RecordsOfCompletedRows(_)
RecordsOfCompletedRows(results) ==
    IF results = <<>> THEN <<>>
    ELSE (IF Head(results).raised THEN <<>> ELSE Head(results).lines)
         \o RecordsOfCompletedRows(Tail(results))

ExpansionErrorsOf(r) ==
    {e \in DOMAIN errors : errors[e].row = r + 1 /\ errors[e].type = "Expansion Error"}

\* C16: once the rows are expanded, a merged row whose expansion raised has
\* no record in the output and exactly one error record citing it, and the
\* output is what the other rows produce.
C16_FailedRowContributesNothing ==
    pc = "expanded" =>
        /\ \A r \in DOMAIN row_results :
              row_results[r].raised =>
                  /\ row_results[r].lines = <<>>
                  /\ Cardinality(ExpansionErrorsOf(r)) = 1
        /\ lines = RecordsOfCompletedRows(row_results)

\* C16, the failing case: a row raised on its named variant after its "/5"
\* records were appended; it has its error record and its records stay in
\* the output
C16_PartialRecordsKept ==
    /\ pc = "expanded"
    /\ \E r \in DOMAIN row_results :
          /\ row_results[r].raised
          /\ Cardinality(ExpansionErrorsOf(r)) = 1
          /\ Len(RecordsOf(r, hSlash5, FALSE)) = 5
          /\ Len(lines) > Len(RecordsOfCompletedRows(row_results))

\* C17: header classification, validation, expansion and matching never
\* raise to their caller: no run is ended by an exception of validate_checklist.
C17_NoExceptionToCaller ==
    pc # "aborted"

\* C17, the failing case: a named variant column holds a numeric cell on a
\* row, validate_checklist raised, and process_checklist ended with a
\* Processing Error and no validation result
C17_ValidationRaised ==
    /\ pc = "aborted"
    /\ validation_result = None
    /\ result_errors[Len(result_errors)] = [type |-> "Processing Error"]
    /\ lines = <<>>
    /\ \E r \in DOMAIN data.rows : \E i \in NamedDescriptors :
          LET cell == data.rows[r][get_column_index(header_processor.normalized_headers,
                                       header_processor.variants[i].column_name)]
          IN  is_numeric_value(cell) /\ safe_int(cell) >= 0

\* ---------------------------------------------------------------------
\* The list command: blocking errors, confirmation, expansion and export
\* ---------------------------------------------------------------------

\* the positions of a run of list_command in which row expansion or the
\* export has begun or is over
ExpansionStarted ==
    pc \in {"merge", "expand", "expanded", "no_output", "export_refused", "exported"}

\* validation of the current process_checklist call reported a blocking error
BlockingErrorsReported ==
    /\ validation_result # None
    /\ ~validation_result.is_valid

\* the command ended before the expansion without an exception
StoppedBeforeExpansion ==
    pc \in {"stopped", "cancelled"}

\* C18: in the list command flow, whenever validation reports a blocking
\* error, the expansion and the export are performed only after the user
\* gave the confirmation, whatever the dry-run option is; and the flow stops
\* before the expansion only when there is a blocking error (warnings alone
\* never stop it).
C18_BlockingErrorsNeedConfirmation ==
    entry = "list_command" =>
        /\ (ExpansionStarted /\ BlockingErrorsReported) => confirmation = "given"
        /\ StoppedBeforeExpansion => BlockingErrorsReported

\* what the list command does guarantee: with the dry-run option on,
\* blocking errors keep the expansion and the export from running until the
\* user gave the confirmation, and a refusal ends the command; only with the
\* dry-run option off does the expansion run unconfirmed
DryRunBlockingErrorsNeedConfirmation ==
    entry = "list_command" =>
        /\ (ExpansionStarted /\ BlockingErrorsReported) =>
              \/ confirmation = "given"
              \/ confirmation = "none" /\ ~dry_run
        /\ pc = "stopped" => dry_run /\ confirmation = "none"
        /\ StoppedBeforeExpansion => BlockingErrorsReported
        /\ confirmation = "declined" <=> pc = "cancelled"
        /\ confirmation = "given" => ~dry_run

\* a run with blocking errors that was confirmed and exported
C18_ConfirmedRunExported ==
    /\ entry = "list_command"
    /\ pc = "exported"
    /\ BlockingErrorsReported
    /\ confirmation = "given"
    /\ lines # <<>>

\* a run with blocking errors and the dry-run option off that exported
\* without the confirmation being asked
C18_ExportedWithoutConfirmation ==
    /\ entry = "list_command"
    /\ pc = "exported"
    /\ BlockingErrorsReported
    /\ confirmation = "none"
    /\ ~dry_run

\* ---------------------------------------------------------------------
\* Rows without player name
\* ---------------------------------------------------------------------

\* the rows of the checklist whose player cell is empty after normalization
RowsWithoutPlayer ==
    IF header_processor = None \/ player_idx(header_processor) = 0 THEN {}
    ELSE {r \in DOMAIN data.rows :
             normalize_text(data.rows[r][player_idx(header_processor)]) = <<>>}

\* the error records of a list that name the checklist row r (Excel row r + 1)
ErrorRecordsOfRow(records, r) ==
    {e \in DOMAIN records : "row" \in DOMAIN records[e] /\ records[e].row = r + 1}

\* the merged rows without player name
MergedRowsWithoutPlayer ==
    IF player_idx(header_processor) = 0 THEN {}
    ELSE DOMAIN merged_data \ RowsWithPlayer

\* C20: a checklist row whose player name is empty after normalization is
\* skipped silently: validation records no error for it, the expansion
\* produces no card record and no error for it, and the result of the run
\* holds no error record of the row.
C20_EmptyPlayerRowSkippedSilently ==
    /\ validation_result # None =>
          \A r \in RowsWithoutPlayer :
              ErrorRecordsOfRow(validation_result.errors, r) = {}
    /\ \A r \in RowsWithoutPlayer : ErrorRecordsOfRow(result_errors, r) = {}
    /\ pc = "expanded" =>
          \A r \in MergedRowsWithoutPlayer :
              /\ row_results[r].lines = <<>>
              /\ ~row_results[r].raised
              /\ ExpansionErrorsOf(r) = {}

\* validation recorded the blocking error 'Required Field' on the player
\* column of a row without player name, whose cells are otherwise valid,
\* and the dry run stopped on it
C20_EmptyPlayerIsBlockingError ==
    /\ pc = "stopped"
    /\ \E r \in RowsWithoutPlayer :
          /\ \E e \in ErrorRecordsOfRow(validation_result.errors, r) :
                /\ validation_result.errors[e].type = "Required Field"
                /\ validation_result.errors[e].column = hOyuncuAdi
          /\ Cardinality(ErrorRecordsOfRow(validation_result.errors, r)) = 1
          /\ Cardinality(ErrorRecordsOfRow(result_errors, r)) = 1
    /\ Len(validation_result.errors) = 1

\* what the expansion alone does with the rows without player name: no card
\* record, no exception and no expansion error
ExpansionSkipsRowsWithoutPlayer ==
    pc = "expanded" =>
        \A r \in MergedRowsWithoutPlayer :
            /\ row_results[r].lines = <<>>
            /\ ~row_results[r].raised
            /\ ExpansionErrorsOf(r) = {}

\* ---------------------------------------------------------------------
\* The expansion summary
\* ---------------------------------------------------------------------

\* the positions of the Base records of a player
BaseRecordsOf(player) ==
    {k \in DOMAIN lines : lines[k].variant_type = hBase /\ lines[k].player = player}

\* the positions of the records of a variant type with the given signature
VariantRecordsOf(vt, signed) ==
    {k \in DOMAIN lines : lines[k].variant_type = vt /\ lines[k].is_signed = signed}

\* C21: the summary is a projection of the card records: total_cards is the
\* number of records, each player's Base tally is the number of Base records
\* of this player, each variant's signed and unsigned tallies are the numbers
\* of signed and unsigned records of its type, each series tally is the
\* number of records of the series.
C21_SummaryCountsRecords ==
    pc = "expanded" =>
        /\ summary.total_cards = Len(lines)
        /\ DOMAIN summary.base_summary
              = {lines[k].player : k \in {j \in DOMAIN lines : lines[j].variant_type = hBase}}
        /\ \A p \in DOMAIN summary.base_summary :
              summary.base_summary[p] = Cardinality(BaseRecordsOf(p))
        /\ \A vt \in DOMAIN summary.variants :
              /\ summary.variants[vt].signed = Cardinality(VariantRecordsOf(vt, TRUE))
              /\ summary.variants[vt].normal = Cardinality(VariantRecordsOf(vt, FALSE))
        /\ \A sr \in DOMAIN summary.series_summary :
              summary.series_summary[sr]
                 = Cardinality({k \in DOMAIN lines : SeriesKey(lines[k]) = sr})

\* a player has two Base records, numbered 1 and 2, and a Base tally of 3
C21_BaseTallySumsNumbers ==
    /\ pc = "expanded"
    /\ \E p \in DOMAIN summary.base_summary :
          /\ Cardinality(BaseRecordsOf(p)) = 2
          /\ summary.base_summary[p] = 3

\* what the summary does project: everything but the Base tallies, which
\* are the sums of the numbers of the Base records
SummaryButBaseCountsRecords ==
    pc = "expanded" =>
        /\ summary.total_cards = Len(lines)
        /\ summary.total_players = Cardinality({lines[k].player : k \in DOMAIN lines})
        /\ \A p \in DOMAIN summary.base_summary :
              summary.base_summary[p] = SumOfNumbers(lines, BaseRecordsOf(p))
        /\ \A vt \in DOMAIN summary.variants :
              /\ summary.variants[vt].signed = Cardinality(VariantRecordsOf(vt, TRUE))
              /\ summary.variants[vt].normal = Cardinality(VariantRecordsOf(vt, FALSE))
        /\ \A sr \in DOMAIN summary.series_summary :
              summary.series_summary[sr]
                 = Cardinality({k \in DOMAIN lines : SeriesKey(lines[k]) = sr})


\* the columns whose processing raises, and the 'Header Error' records of a
\* header
RaisingColumns(headers) ==
    {i \in DOMAIN headers : VariantRaises(normalize_single_header(headers[i]))}
HeaderErrorsOf(hp, header) ==
    {k \in DOMAIN hp.errors :
        hp.errors[k].type = "Header Error" /\ hp.errors[k].column = header}

\* C27: when processing a header raises, classification still completes,
\* one error is recorded for the column and the normalized header list gets
\* one entry for it, the raw header: the list is as long as the original
\* header list and every other column keeps its index.
C27_RaisingHeaderGivesOneEntry ==
    header_processor # None =>
        LET hp == header_processor
            headers == hp.original_headers
        IN  /\ Len(hp.normalized_headers) = Len(headers)
            /\ \A i \in DOMAIN headers :
                  hp.normalized_headers[i]
                     = IF i \in RaisingColumns(headers) THEN headers[i]
                       ELSE normalize_single_header(headers[i])
            /\ \A i \in RaisingColumns(headers) :
                  Cardinality(HeaderErrorsOf(hp, headers[i])) = 1

\* a header whose variant detection raised has two entries in the normalized
\* header list, which is one longer than the original header list
C27_RaisingHeaderEnteredTwice ==
    /\ header_processor # None
    /\ LET hp == header_processor
           headers == hp.original_headers
       IN  /\ Len(hp.normalized_headers) = Len(headers) + 1
           /\ \E i \in RaisingColumns(headers) :
                 /\ hp.normalized_headers[i] = normalize_single_header(headers[i])
                 /\ hp.normalized_headers[i + 1] = headers[i]
                 /\ Cardinality(HeaderErrorsOf(hp, headers[i])) = 1

\* classification completes with one error for every column that raised, and
\* one entry more in the normalized header list for each of them
RaisingHeaderRecordedOnce ==
    header_processor # None =>
        LET hp == header_processor
            headers == hp.original_headers
        IN  /\ Len(hp.normalized_headers)
                  = Len(headers) + Cardinality(RaisingColumns(headers))
            /\ \A i \in RaisingColumns(headers) :
                  Cardinality(HeaderErrorsOf(hp, headers[i])) = 1
            /\ \A k \in DOMAIN hp.errors :
                  hp.errors[k].type = "Header Error"
                     => \E i \in RaisingColumns(headers) :
                            hp.errors[k].column = headers[i]

----------------------------------------------------------------------------
(***************************************************************************)
(* test_normalize.py: the normalizer of the test scripts                   *)
(***************************************************************************)
\* re.sub(r'[^a-z0-9_]', '', s)
RECURSIVE DeleteSpecials(_)
DeleteSpecials(s) ==
    IF s = <<>> THEN <<>>
    ELSE (IF IsLower(Head(s)) \/ IsDigit(Head(s)) \/ Head(s) = "_"
          THEN <<Head(s)>> ELSE <<>>)
         \o DeleteSpecials(Tail(s))

\* test_normalize.normalize_for_matching
reference_normalize_for_matching(text) ==
    IF text = <<>> THEN <<>>
    ELSE LET translated == [i \in DOMAIN text |-> TURKISH_TO_ASCII(text[i])]
             lowered    == Lower(translated)
             separated  == [i \in DOMAIN lowered |->
                              IF lowered[i] \in {"-", " "} THEN "_" ELSE lowered[i]]
         IN  StripUnderscores(CollapseUnderscores(DeleteSpecials(separated)))

----------------------------------------------------------------------------
(***************************************************************************)
(* shorten.py: ImageShortener._calculate_shortened_name                    *)
(***************************************************************************)
\* the max_length the shortener of the model is built with
max_length == 12

\* re.search(r'(\.(jpg|jpeg|png))$', filename, re.IGNORECASE): the length of
\* the extension, 0 without match
ExtensionLength(filename) ==
    LET low == Lower(filename)
    IN  IF EndsWith(low, <<".", "j", "p", "e", "g">>) THEN 5
        ELSE IF EndsWith(low, <<".", "j", "p", "g">>) \/ EndsWith(low, <<".", "p", "n", "g">>)
        THEN 4
        ELSE 0

\* re.match(r'^(\d{8}_)', name): the length of the date prefix, 0 without
DatePrefixLength(name) ==
    IF Len(name) >= 9 /\ (\A i \in 1..8 : IsDigit(name[i])) /\ name[9] = "_"
    THEN 9 ELSE 0

\* re.search(r'(_s)?_(\d+|base)$', name): the length of the match, 0 without
SuffixLength(name) ==
    LET k == TrailingDigits(name)
        core == IF k >= 1 /\ Len(name) > k /\ name[Len(name) - k] = "_" THEN k + 1
                ELSE IF EndsWith(name, BaseWord) THEN 5
                ELSE 0
    IN  IF core = 0 THEN 0
        ELSE IF EndsWith(Take(name, Len(name) - core), <<"_", "s">>) THEN core + 2
        ELSE core

\* s.rstrip('_')
RECURSIVE RStripUnderscores(_)
RStripUnderscores(s) ==
    IF s # <<>> /\ s[Len(s)] = "_" THEN RStripUnderscores(Take(s, Len(s) - 1)) ELSE s

\* the loop that drops the last word while the content is too long
RECURSIVE DropWords(_, _)
DropWords(words, available) ==
    IF Len(Join(words, <<"_">>)) > available /\ Len(words) > 1
    THEN DropWords(Take(words, Len(words) - 1), available)
    ELSE words

\* _calculate_shortened_name
calculate_shortened_name(filename, max_len) ==
    LET extLen    == ExtensionLength(filename)
        extension == Lower(Drop(filename, Len(filename) - extLen + 1))
        name      == Take(filename, Len(filename) - extLen)
        dateLen   == DatePrefixLength(name)
        date_prefix == Take(name, dateLen)
        name1     == Drop(name, dateLen + 1)
        sufLen    == SuffixLength(name1)
        suffix    == Drop(name1, Len(name1) - sufLen + 1)
        content   == Take(name1, Len(name1) - sufLen)
        available == max_len - (dateLen + sufLen + extLen)
        words     == DropWords(Split(content, "_"), available)
        dropped   == IF Len(Split(content, "_")) = Len(words) THEN content
                     ELSE Join(words, <<"_">>)
        shortened == IF Len(dropped) > available
                     THEN RStripUnderscores(Take(dropped, available))
                     ELSE dropped
    IN  IF sufLen = 0 THEN filename
        ELSE IF available < 3 THEN filename
        ELSE IF Len(content) <= available THEN filename
        ELSE date_prefix \o shortened \o suffix \o extension

----------------------------------------------------------------------------
(***************************************************************************)
(* One call of a text function                                             *)
(***************************************************************************)
\* longest text given to the normalizers
MaxChars == 4
\* largest number of "_"-separated segments of a file name
MaxSegments == 3

\* the characters of the texts: letters of both cases, Turkish letters, an
\* apostrophe and the separators
TextChars == {"a", "B", "uuml", "Idot", "'", " ", "-", "_"}
Texts == SeqsUpTo(TextChars, MaxChars)

\* the segments of the file names: words, the signed marker, the Base word,
\* numbers and a date
NameSegments == {tArda, tGuler, tS, tBase, tTen, <<"5">>, tDate}
Extensions == {JpgExt, <<".", "J", "P", "G">>}
FileNames3 ==
    { Join(segs, <<"_">>) \o ext :
        segs \in UNION { [1..n -> NameSegments] : n \in 1..MaxSegments },
        ext \in Extensions }

InitText ==
    /\ pc = "text"
    /\ text_in \in Texts \cup FileNames3
    /\ text_out = None
    /\ MatchIdle
    /\ ExpandIdle
    /\ ShortenIdle

\* images.normalize_for_matching(text_in)
NormalizeForMatching ==
    /\ pc = "text"
    /\ text_out' = normalize_for_matching(text_in)
    /\ pc' = "normalized"
    /\ UNCHANGED <<text_in, matchVars, expandVars, shortenVars>>

\* test_normalize.normalize_for_matching(text_in)
ReferenceNormalizeForMatching ==
    /\ pc = "text"
    /\ text_out' = reference_normalize_for_matching(text_in)
    /\ pc' = "reference_normalized"
    /\ UNCHANGED <<text_in, matchVars, expandVars, shortenVars>>

\* ImageMatcher._parse_filename(text_in), called on the names of the scan
ParseFilename ==
    /\ pc = "text"
    /\ text_in \in FileNames3
    /\ text_out' = parse_filename(text_in)
    /\ pc' = "parsed"
    /\ UNCHANGED <<text_in, matchVars, expandVars, shortenVars>>

\* ImageShortener._calculate_shortened_name(text_in)
CalculateShortenedName ==
    /\ pc = "text"
    /\ text_in \in FileNames3
    /\ text_out' = calculate_shortened_name(text_in, max_length)
    /\ pc' = "shortened"
    /\ UNCHANGED <<text_in, matchVars, expandVars, shortenVars>>

NextText ==
    \/ NormalizeForMatching
    \/ ReferenceNormalizeForMatching
    \/ ParseFilename
    \/ CalculateShortenedName

SpecText == InitText /\ [][NextText]_vars

----------------------------------------------------------------------------
(***************************************************************************)
(* Properties of the text functions                                        *)
(***************************************************************************)
\* the name _parse_filename looks at: lowercased, without extension and
\* without date prefix
ParsedName(filename) ==
    LET noext == StripExtension(Lower(filename))
    IN  IF HasDatePrefix(noext) THEN Drop(noext, 10) ELSE noext

\* the numbers of digits k for which the name ends with "_base_<k digits>"
BaseDigitCounts(name) ==
    {k \in 1..Len(name) :
        /\ \A i \in (Len(name) - k + 1)..Len(name) : IsDigit(name[i])
        /\ EndsWith(Take(name, Len(name) - k), BaseWord \o <<"_">>)}

\* the numbers of digits k for which the name ends with "_<k digits>"
NumberDigitCounts(name) ==
    {k \in 1..(Len(name) - 1) :
        /\ \A i \in (Len(name) - k + 1)..Len(name) : IsDigit(name[i])
        /\ name[Len(name) - k] = "_"}

\* the value of the last k characters of the name (k in ks), 0 for no k
TrailingValue(name, ks) ==
    IF ks = {} THEN 0
    ELSE LET k == CHOOSE x \in ks : TRUE IN ToInt(Drop(name, Len(name) - k + 1))

\* the name without the suffix the rules of C22 match
NameWithoutSuffix(name) ==
    IF BaseDigitCounts(name) # {}
    THEN Take(name, Len(name) - 6 - (CHOOSE x \in BaseDigitCounts(name) : TRUE))
    ELSE IF EndsWith(name, BaseWord) THEN Take(name, Len(name) - 5)
    ELSE IF NumberDigitCounts(name) # {}
    THEN Take(name, Len(name) - 1 - (CHOOSE x \in NumberDigitCounts(name) : TRUE))
    ELSE name

\* C22: on the lowercased name without extension and date prefix, is_base
\* holds exactly when the name ends with "_base" or "_base_<digits>", whose
\* digits are then the denominator, before the numeric suffix is looked at;
\* otherwise a trailing "_<digits>" gives the denominator; otherwise the
\* denominator is 0; the content tokens are those of the name without the
\* matched suffix.
C22_SuffixGivesBaseAndDenominator ==
    pc = "parsed" =>
        LET name == ParsedName(text_in)
        IN  /\ text_out.is_base
                  <=> (EndsWith(name, BaseWord) \/ BaseDigitCounts(name) # {})
            /\ text_out.denominator =
                  IF BaseDigitCounts(name) # {}
                  THEN TrailingValue(name, BaseDigitCounts(name))
                  ELSE IF EndsWith(name, BaseWord) THEN 0
                  ELSE TrailingValue(name, NumberDigitCounts(name))
            /\ text_out.content_parts
                  = FilterLen2(Split(NameWithoutSuffix(name), "_"))

\* a name ending with "_base_10" is parsed as Base with denominator 10, and
\* neither word of the suffix is a content token
C22_Witness ==
    /\ pc = "parsed"
    /\ EndsWith(ParsedName(text_in), BaseWord \o <<"_">> \o tTen)
    /\ text_out.is_base
    /\ text_out.denominator = 10
    /\ tBase \notin Range(text_out.content_parts)
    /\ tTen \notin Range(text_out.content_parts)
    /\ text_out.content_parts # <<>>

\* the name with its "s" segments taken out
RECURSIVE WithoutMarkers(_)
WithoutMarkers(segments) ==
    IF segments = <<>> THEN <<>>
    ELSE (IF Head(segments) = tS THEN <<>> ELSE <<Head(segments)>>)
         \o WithoutMarkers(Tail(segments))

Unmarked(filename) ==
    Join(WithoutMarkers(Split(ParsedName(filename), "_")), <<"_">>) \o JpgExt

\* C23: is_signed holds exactly when an "_"-delimited "s" occurs anywhere in
\* the name, at its start and end included; the marker is no content token,
\* every content token has at least 2 characters, and the denominator and
\* is_base are those of the name without the marker.
C23_SignedMarkerAnywhere ==
    pc = "parsed" =>
        /\ text_out.is_signed <=> tS \in Range(Split(ParsedName(text_in), "_"))
        /\ tS \notin Range(text_out.content_parts)
        /\ \A i \in DOMAIN text_out.content_parts : Len(text_out.content_parts[i]) >= 2
        /\ text_out.denominator = parse_filename(Unmarked(text_in)).denominator
        /\ text_out.is_base = parse_filename(Unmarked(text_in)).is_base

\* a name whose marker follows the number: signed, denominator 0 and the
\* number among the content tokens, while the same name without the marker
\* has the denominator 10
C23_TrailingMarkerHidesDenominator ==
    /\ pc = "parsed"
    /\ EndsWith(ParsedName(text_in), <<"_">> \o tTen \o <<"_">> \o tS)
    /\ text_out.is_signed
    /\ text_out.denominator = 0
    /\ tTen \in Range(text_out.content_parts)
    /\ parse_filename(Unmarked(text_in)).denominator = 10

\* what _parse_filename does guarantee about the marker
SignedMarkerDetected ==
    pc = "parsed" =>
        /\ text_out.is_signed <=> tS \in Range(Split(ParsedName(text_in), "_"))
        /\ tS \notin Range(text_out.content_parts)
        /\ \A i \in DOMAIN text_out.content_parts : Len(text_out.content_parts[i]) >= 2

\* C24: normalize_for_matching is defined for every text, the empty one
\* included, and is idempotent.
C24_NormalizeIdempotent ==
    pc = "normalized" =>
        /\ \A i \in DOMAIN text_out :
              IsLower(text_out[i]) \/ IsDigit(text_out[i]) \/ text_out[i] = "_"
        /\ normalize_for_matching(text_out) = text_out
        /\ text_in = <<>> => text_out = <<>>

\* a text with capitals or Turkish letters and a separator at its start was
\* normalized to something else than itself
C24_Witness ==
    /\ pc = "normalized"
    /\ text_in # text_out
    /\ text_out # <<>>
    /\ text_in[1] \in {" ", "-", "_", "'"}
    /\ \E i \in DOMAIN text_in : text_in[i] \in {"uuml", "Idot", "B"}
    /\ normalize_for_matching(text_out) = text_out

\* C25: the normalizer of the matcher turns only space and hyphen into
\* underscores and deletes every other character outside [a-z0-9_], so that
\* an apostrophe inside a word does not split it; its result is the result
\* of the normalizer of the test scripts for every text.
C25_MatcherNormalizerIsReference ==
    pc = "normalized" =>
        /\ text_out = reference_normalize_for_matching(text_in)
        /\ (\A i \in DOMAIN text_in : text_in[i] \notin {" ", "-", "_"})
              => Len(Split(text_out, "_")) = 1

\* a word with an apostrophe inside: two tokens for the matcher, one for the
\* normalizer of the test scripts
C25_ApostropheSplitsWord ==
    /\ pc = "normalized"
    /\ text_in = <<"a", "'", "a">>
    /\ text_out = <<"a", "_", "a">>
    /\ reference_normalize_for_matching(text_in) = <<"a", "a">>

\* the extension of a file name as written
ExtensionOf(filename) == Drop(filename, Len(filename) - ExtensionLength(filename) + 1)

\* a is a prefix of b
IsPrefix(a, b) == Len(a) <= Len(b) /\ Take(b, Len(a)) = a

\* C26: the shortened name keeps the extension, the date prefix, the signed
\* marker and the denominator or Base suffix of the name, "_base_<digits>"
\* included: it parses to the same is_signed, is_base and denominator, and
\* its content words are the first content words of the name.
C26_ShorteningKeepsFixedParts ==
    pc = "shortened" =>
        LET before == parse_filename(text_in)
            after == parse_filename(text_out)
        IN  /\ ExtensionOf(text_out) = ExtensionOf(text_in)
            /\ after.has_date = before.has_date
            /\ after.date_prefix = before.date_prefix
            /\ after.is_signed = before.is_signed
            /\ after.is_base = before.is_base
            /\ after.denominator = before.denominator
            /\ IsPrefix(after.content_parts, before.content_parts)

\* a name ending with "_base_10" was shortened to a name that is not Base
C26_BaseWordDropped ==
    /\ pc = "shortened"
    /\ EndsWith(ParsedName(text_in), BaseWord \o <<"_">> \o tTen)
    /\ parse_filename(text_in).is_base
    /\ ~parse_filename(text_out).is_base
    /\ parse_filename(text_out).denominator = 10
    /\ Len(text_out) < Len(text_in)

----------------------------------------------------------------------------
(***************************************************************************)
(* shorten.py: ImageShortener.process_all                                  *)
(***************************************************************************)
\* str.strip() on the blanks of a cell
StripSpaces(s) ==
    LET first == {i \in DOMAIN s : s[i] # " "}
    IN  IF first = {} THEN <<>>
        ELSE LET lo == CHOOSE i \in first : \A j \in first : i <= j
                 hi == CHOOSE i \in first : \A j \in first : i >= j
             IN  SubSeq(s, lo, hi)

tNan == <<"n", "a", "n">>
tConflict == <<"C", "O", "N", "F", "L", "I", "C", "T">>

\* ShortenItem(excel_row, original_name, new_name, needs_shortening)
ShortenItem(excel_row, original_name, new_name, needs_shortening) ==
    [excel_row        |-> excel_row,
     original_name    |-> original_name,
     new_name         |-> new_name,
     needs_shortening |-> needs_shortening]

\* the loop of _read_excel_and_analyze from the row of index idx (1-based;
\* its Excel row number is idx + 1): empty, "nan" and CONFLICT cells are
\* skipped, every other cell gives one item
RECURSIVE AnalyzeRows(_, _)
AnalyzeRows(column, idx) ==
    IF idx > Len(column) THEN <<>>
    ELSE LET image_name == StripSpaces(column[idx])
             too_long == Len(image_name) > max_length
             new_name == IF too_long
                         THEN calculate_shortened_name(image_name, max_length)
                         ELSE image_name
         IN  IF image_name = <<>> \/ image_name = tNan
                \/ StartsWith(image_name, tConflict)
             THEN AnalyzeRows(column, idx + 1)
             ELSE <<ShortenItem(idx + 1, image_name, new_name,
                                too_long /\ new_name # image_name)>>
                  \o AnalyzeRows(column, idx + 1)

\* the loop of _update_excel: the cell of every item that needs shortening
\* is set to the item's new name when it still holds the original name
UpdatedColumn(column, items) ==
    [i \in DOMAIN column |->
        IF \E k \in DOMAIN items :
              /\ items[k].needs_shortening
              /\ items[k].excel_row - 1 = i
              /\ column[i] = items[k].original_name
        THEN LET k == CHOOSE k \in DOMAIN items : items[k].excel_row - 1 = i
             IN  items[k].new_name
        ELSE column[i]]

\* the image names of the model's output sheet and image directory
NameGuler10 == FileName(<<tArda, tGuler, tTen>>)
NameGular10 == FileName(<<tArda, tGular, tTen>>)
NameArda10 == FileName(<<tArda, tTen>>)
NameNoSuffix == FileName(<<tArda, tGuler>>)
NameGuler5 == FileName(<<tArda, tGuler, <<"5">>>>)
CellPool ==
    { NameGuler10, NameGular10, NameArda10, NameNoSuffix,
      <<" ">> \o NameGuler5, <<>>, tConflict }
ImagePool == {NameGuler10, NameGular10, NameArda10, NameGuler5}

\* ImageShortener(excel_file, image_dir, max_length) on a sheet and a
\* directory of the pools
InitShorten ==
    /\ pc = "shorten_read"
    /\ excel_column \in SeqsUpTo(CellPool, MaxRows)
    /\ image_files \in SUBSET ImagePool
    /\ items_to_process = <<>>
    /\ item_idx = 0
    /\ renamed = <<>>
    /\ shorten_stats = [total |-> 0, shortened |-> 0, skipped |-> 0, error |-> 0]
    /\ MatchIdle
    /\ ExpandIdle
    /\ TextIdle

\* process_all steps 1 and 2: _read_excel_and_analyze, then _create_backup,
\* which copies the directory and leaves it as it is
ReadExcelAndAnalyze ==
    /\ pc = "shorten_read"
    /\ items_to_process' = AnalyzeRows(excel_column, 1)
    /\ shorten_stats' = [total |-> Len(items_to_process'), shortened |-> 0,
                         skipped |-> 0, error |-> 0]
    /\ item_idx' = 0
    /\ pc' = "shorten_rename"
    /\ UNCHANGED <<excel_column, image_files, renamed, matchVars, expandVars,
                   textVars>>

\* one turn of the loop of _rename_files
RenameNextFile ==
    /\ pc = "shorten_rename"
    /\ item_idx < Len(items_to_process)
    /\ LET item == items_to_process[item_idx + 1]
           count(key, what) ==
               /\ shorten_stats' = [shorten_stats EXCEPT ![key] = @ + 1]
               /\ renamed' = Append(renamed, what)
       IN  IF ~item.needs_shortening
           THEN count("skipped", "skipped") /\ UNCHANGED image_files
           ELSE IF item.original_name \notin image_files
           THEN count("error", "source_missing") /\ UNCHANGED image_files
           ELSE IF item.new_name \in image_files
                   /\ item.original_name # item.new_name
           THEN count("error", "target_exists") /\ UNCHANGED image_files
           ELSE \/ /\ image_files' = (image_files \ {item.original_name})
                                        \cup {item.new_name}
                   /\ count("shortened", "renamed")
                \/ /\ count("error", "rename_error")
                   /\ UNCHANGED image_files
    /\ item_idx' = item_idx + 1
    /\ UNCHANGED <<pc, excel_column, items_to_process, matchVars, expandVars,
                   textVars>>

\* process_all steps 4 and 5: _update_excel after the loop of _rename_files,
\* then the report
UpdateExcel ==
    /\ pc = "shorten_rename"
    /\ item_idx = Len(items_to_process)
    /\ excel_column' = UpdatedColumn(excel_column, items_to_process)
    /\ pc' = "shorten_done"
    /\ UNCHANGED <<image_files, items_to_process, item_idx, renamed,
                   shorten_stats, matchVars, expandVars, textVars>>

NextShorten ==
    \/ ReadExcelAndAnalyze
    \/ RenameNextFile
    \/ UpdateExcel

SpecShorten == InitShorten /\ [][NextShorten]_vars

----------------------------------------------------------------------------
(***************************************************************************)
(* Properties of the shortener                                             *)
(***************************************************************************)
\* the cell of the item's row was replaced by the item's new name
CellReplaced(item) ==
    /\ item.new_name # item.original_name
    /\ excel_column[item.excel_row - 1] = item.new_name

\* C30: after process_all the cell of a row holds the shortened name only if
\* the row's own file was renamed to it and exists under that name: a rename
\* that failed (target already there, source missing) or was skipped leaves
\* the cell unchanged; and total = shortened + skipped + error.
C30_CellReplacedOnlyAfterOwnRename ==
    pc = "shorten_done" =>
        /\ \A k \in DOMAIN items_to_process :
              CellReplaced(items_to_process[k])
                 => /\ renamed[k] = "renamed"
                    /\ items_to_process[k].new_name \in image_files
        /\ shorten_stats.total = shorten_stats.shortened
                                   + shorten_stats.skipped + shorten_stats.error

\* two rows shorten to the same name: the first file was renamed, the second
\* is still in the directory under its own name, and the second row's cell
\* holds the name of the first row's file
C30_CollidingRowPointsAtOtherFile ==
    /\ pc = "shorten_done"
    /\ \E k \in DOMAIN items_to_process :
          /\ renamed[k] = "target_exists"
          /\ CellReplaced(items_to_process[k])
          /\ items_to_process[k].original_name \in image_files
          /\ \E j \in 1..(k - 1) :
                /\ renamed[j] = "renamed"
                /\ items_to_process[j].new_name = items_to_process[k].new_name
                /\ items_to_process[j].original_name
                      # items_to_process[k].original_name

\* every item is counted once: the counters add up to the number of items
\* handled, and to the total when the run is over
ShortenStatsAddUp ==
    /\ shorten_stats.shortened + shorten_stats.skipped + shorten_stats.error
          = item_idx
    /\ pc = "shorten_done"
          => shorten_stats.total = shorten_stats.shortened
                                     + shorten_stats.skipped + shorten_stats.error

\* _update_excel looks at needs_shortening only: the cell of every item that
\* needs shortening and was written without blanks around it is replaced,
\* whatever _rename_files did with the item
CellReplacedWheneverShorteningNeeded ==
    pc = "shorten_done" =>
        \A k \in DOMAIN items_to_process :
            LET item == items_to_process[k]
                cell == excel_column[item.excel_row - 1]
            IN  (item.needs_shortening /\ StripSpaces(cell) = cell)
                   => CellReplaced(item)

====
